---- MODULE Spec2Model ----
(***************************************************************************)
(* A model of the front end of the `light` compiler.                       *)
(*                                                                         *)
(*   Part 1: the lexer (crates/lex/src/lib.rs): the character stream       *)
(*           StreamIter behind a Peekable, and Lex::scan / Lex::lex.       *)
(*           Every invocation of Lex::lex is one step; the tail calls      *)
(*           `return self.lex()` of the whitespace and comment branches    *)
(*           are the next step.                                            *)
(*   Part 2: the type checker (crates/tych/src/lib.rs): Tych::walk visits  *)
(*           one top level node per step; the visitor is a recursive       *)
(*           operator over the tree.                                       *)
(*                                                                         *)
(* Spec is the lexer's specification, TychSpec the type checker's.         *)
(***************************************************************************)
EXTENDS Integers, Sequences, FiniteSets, TLC

VARIABLES
    src,        \* the input given to Lex::new (kept to state the properties)
    lines,      \* StreamIter.lines
    stream,     \* [line, column: StreamIter's fields; peeked: Peekable's cache]
    tokens,     \* Lex.tokens
    lexState,   \* "scanning" | "ok" | "err" | "panic": where Lex::scan is
    lexErr,     \* the LexError scan returned, <<>> when none
    ast,        \* the Ast handed to Tych::walk: its top level nodes
    pos,        \* how many top level nodes walk has visited
    tych,       \* Tych's own fields: symbol_table, hint, current_struct
    typed,      \* the typed_ast walk has built so far
    tychState,  \* "walking" | "ok" | "err" | "panic", "again_.." after a second run
    visits,     \* history: one record per visit made by the last step
    fnCall,     \* a function called on its own: [fn, arg], <<>> when none
    fnResult    \* what the call returned: <<value>>, <<>> before it returns

lexVars == <<src, lines, stream, tokens, lexState, lexErr>>
tychVars == <<ast, pos, tych, typed, tychState, visits>>
fnVars == <<fnCall, fnResult>>
vars == <<src, lines, stream, tokens, lexState, lexErr,
          ast, pos, tych, typed, tychState, visits, fnCall, fnResult>>

Last(s) == s[Len(s)]

(***************************************************************************)
(* Characters.  A character is a one-letter string; the ones TLA+ cannot   *)
(* write as themselves carry a name.                                       *)
(***************************************************************************)
NL == "nl"
SP == "sp"
TAB == "tab"
QUOTE == "quote"
BSLASH == "bslash"
NUL == "nul"

Letters == {"a", "b", "c", "d", "e", "f", "g", "h", "i", "j", "k", "l", "m",
            "n", "o", "p", "q", "r", "s", "t", "u", "v", "w", "x", "y", "z"}
Digits == {"0", "1", "2", "3", "4", "5", "6", "7", "8", "9"}

IsAsciiWhitespace(c) == c \in {SP, NL, TAB}
IsAsciiAlphabetic(c) == c \in Letters
IsAsciiDigit(c) == c \in Digits
IsAsciiAlphanumeric(c) == IsAsciiAlphabetic(c) \/ IsAsciiDigit(c)

(***************************************************************************)
(* The inputs: every concatenation of at most MaxChunks chunks.            *)
(***************************************************************************)
MaxChunks == 3

Chunks ==
    { <<c>> : c \in {"a", "n", "1", NL, SP, QUOTE, BSLASH,
                     "+", "-", ")", "}", "]", ";", "/", "#"} }
    \cup { <<"t", "r", "u", "e">>, <<QUOTE, "a", QUOTE>>,
           <<BSLASH, "n">>, <<BSLASH, QUOTE>> }

RECURSIVE Sources(_)
Sources(n) ==
    IF n = 0 THEN { <<>> }
    ELSE LET shorter == Sources(n - 1)
         IN  shorter \cup { s \o c : s \in shorter, c \in Chunks }

(***************************************************************************)
(* StreamIter and ContextElement.                                          *)
(***************************************************************************)
\* StreamIter::new: input.split_inclusive('\n')
RECURSIVE SplitFrom(_, _, _)
SplitFrom(s, i, cur) ==
    IF i > Len(s) THEN (IF cur = <<>> THEN <<>> ELSE <<cur>>)
    ELSE IF s[i] = NL THEN <<Append(cur, NL)>> \o SplitFrom(s, i + 1, <<>>)
    ELSE SplitFrom(s, i + 1, Append(cur, s[i]))

SplitInclusive(s) == SplitFrom(s, 1, <<>>)

\* positions left 0-based
ContextElementNewZeroBased(value, line, column) ==
    [value |-> value, line |-> line, column |-> column]

\* ContextElement::new: positions are stored 1-based
ContextElementNew(value, line, column) ==
    [value |-> value, line |-> line + 1, column |-> column + 1]

IsEof(el) == el.value = NUL

\* StreamIter::next reads past the last line with column = 0: `self.column - 1`
\* underflows.  A build with overflow checks panics there; one without wraps to
\* usize::MAX, and ContextElement::new's `column + 1` wraps back to 0.
NextUnderflows(line, column) == line >= Len(lines) /\ column = 0

\* StreamIter::next: [el: the element yielded, line, column: the fields after].
\* Past the last line the element is built from `column - 1`; in the wrapping
\* build (column - 1) + 1 is column again modulo the width of usize, which is
\* what the unbounded arithmetic gives here as well.
StreamIterNext(line, column) ==
    IF line >= Len(lines)
    THEN [el |-> ContextElementNew(NUL, line, column - 1),
          line |-> line, column |-> column]
    ELSE IF column < Len(lines[line + 1])
    THEN [el |-> ContextElementNew(lines[line + 1][column + 1], line, column),
          line |-> line, column |-> column + 1]
    ELSE IF line + 1 < Len(lines)
    THEN [el |-> ContextElementNew(lines[line + 2][1], line + 1, 0),
          line |-> line + 1, column |-> 1]
    ELSE [el |-> ContextElementNew(NUL, line + 1, 0),
          line |-> line + 1, column |-> 1]

\* Peekable::next: the cached element if there is one
SNext(st) ==
    IF st.peeked # <<>>
    THEN [el |-> st.peeked[1], st |-> [st EXCEPT !.peeked = <<>>]]
    ELSE LET r == StreamIterNext(st.line, st.column)
         IN  [el |-> r.el,
              st |-> [line |-> r.line, column |-> r.column, peeked |-> <<>>]]

\* Peekable::peek: reads one element ahead and caches it
SPeek(st) ==
    IF st.peeked # <<>>
    THEN [el |-> st.peeked[1], st |-> st]
    ELSE LET r == StreamIterNext(st.line, st.column)
         IN  [el |-> r.el,
              st |-> [line |-> r.line, column |-> r.column, peeked |-> <<r.el>>]]

\* whether the next read of the stream is the underflowing one
Underflows(st) == st.peeked = <<>> /\ NextUnderflows(st.line, st.column)

(***************************************************************************)
(* Tokens and Lex.                                                         *)
(***************************************************************************)
\* Token::new; arg is the payload of the kind: the text of Ident, Num and Char,
\* the operator of Op, the flag of Bool and Semicolon
TokenNew(tt, arg, line, column) ==
    [tt |-> tt, arg |-> arg, line |-> line, column |-> column]

LexErrorFrom(msg, cp) == [message |-> msg, line |-> cp.line, column |-> cp.column]

\* the list without Num
ShouldAddSemicolonWithoutNum(toks) ==
    IF toks # <<>>
    THEN LET t == Last(toks)
         IN  \/ t.tt \in {"Bool", "Char", "CloseBrace", "CloseParen",
                          "CloseBracket", "Ident"}
             \/ (t.tt = "Op" /\ t.arg \in {<<"Inc">>, <<"Dec">>})
    ELSE FALSE

\* the list matching every operator
ShouldAddSemicolonAnyOp(toks) ==
    IF toks # <<>>
    THEN LET t == Last(toks)
         IN  t.tt \in {"Bool", "Char", "CloseBrace", "CloseParen",
                       "CloseBracket", "Ident", "Num", "Op"}
    ELSE FALSE

\* Lex::should_add_semicolon
ShouldAddSemicolon(toks) ==
    IF toks # <<>>
    THEN LET t == Last(toks)
         IN  \/ t.tt \in {"Bool", "Char", "CloseBrace", "CloseParen",
                          "CloseBracket", "Ident", "Num"}
             \/ (t.tt = "Op" /\ t.arg \in {<<"Inc">>, <<"Dec">>})
    ELSE FALSE

\* the whitespace loop of Lex::lex: the stream when the loop is left
RECURSIVE SkipWhitespace(_)
SkipWhitespace(st) ==
    LET p == SPeek(st)
    IN  IF ~IsAsciiWhitespace(p.el.value) THEN p.st
        ELSE IF IsEof(p.el) THEN p.st
        ELSE SkipWhitespace(SNext(p.st).st)

\* the comment loop of Lex::lex: reads up to and including '\n', or to EOF
RECURSIVE SkipComment(_)
SkipComment(st) ==
    LET n == SNext(st)
    IN  IF n.el.value = NL THEN n.st
        ELSE IF IsEof(n.el) THEN n.st
        ELSE SkipComment(n.st)

\* the identifier loop: [text, st]
RECURSIVE TakeIdent(_, _)
TakeIdent(text, st) ==
    LET p == SPeek(st)
    IN  IF IsAsciiAlphanumeric(p.el.value) \/ p.el.value = "_"
        THEN TakeIdent(Append(text, p.el.value), SNext(p.st).st)
        ELSE [text |-> text, st |-> p.st]

\* the number loop: [text, st]
RECURSIVE TakeNum(_, _)
TakeNum(text, st) ==
    LET p == SPeek(st)
    IN  IF IsAsciiAlphanumeric(p.el.value) \/ p.el.value = "."
        THEN TakeNum(Append(text, p.el.value), SNext(p.st).st)
        ELSE [text |-> text, st |-> p.st]

\* the keyword table of Lex::lex
KeywordToken(identifier, line, column) ==
    CASE identifier = <<"f", "n">> -> TokenNew("Fn", <<>>, line, column)
      [] identifier = <<"l", "e", "t">> -> TokenNew("Let", <<>>, line, column)
      [] identifier = <<"f", "o", "r">> -> TokenNew("For", <<>>, line, column)
      [] identifier = <<"i", "f">> -> TokenNew("If", <<>>, line, column)
      [] identifier = <<"e", "l", "s", "e">> -> TokenNew("Else", <<>>, line, column)
      [] identifier = <<"e", "x", "t", "e", "r", "n">> -> TokenNew("Extern", <<>>, line, column)
      [] identifier = <<"t", "r", "u", "e">> -> TokenNew("Bool", <<"true">>, line, column)
      [] identifier = <<"f", "a", "l", "s", "e">> -> TokenNew("Bool", <<"false">>, line, column)
      [] identifier = <<"s", "t", "r", "u", "c", "t">> -> TokenNew("Struct", <<>>, line, column)
      [] identifier = <<"m", "o", "d", "u", "l", "e">> -> TokenNew("Module", <<>>, line, column)
      [] OTHER -> TokenNew("Ident", identifier, line, column)

\* a control character dropped from the table
EscapedCharWithoutNewline(c) ==
    CASE c = "t" -> <<TAB>>
      [] c = QUOTE -> <<QUOTE>>
      [] OTHER -> <<>>

\* the control characters of a character literal: <<ch>>, or <<>> for an
\* invalid control sequence
EscapedChar(c) ==
    CASE c = "n" -> <<NL>>
      [] c = "t" -> <<TAB>>
      [] c = QUOTE -> <<QUOTE>>
      [] OTHER -> <<>>

\* the character literal branch of Lex::lex, entered with cur = '\'' read and
\* the stream at st: [ok, tok, err, st]
LexCharLiteral(cur, st) ==
    LET next == SNext(st)
        esc == SNext(next.st)
        \* [ok, ch, err, st] of the match on next.value
        first ==
            CASE next.el.value = BSLASH ->
                    (IF EscapedChar(esc.el.value) # <<>>
                     THEN [ok |-> TRUE, ch |-> EscapedChar(esc.el.value)[1], st |-> esc.st]
                     ELSE [ok |-> FALSE, st |-> esc.st,
                           err |-> LexErrorFrom("Invalid character control sequence", esc.el)])
              [] next.el.value = NUL ->
                    [ok |-> FALSE, st |-> next.st,
                     err |-> LexErrorFrom("Unterminated character literal, got EOF", cur)]
              [] next.el.value = QUOTE ->
                    [ok |-> FALSE, st |-> next.st,
                     err |-> LexErrorFrom("Character literal can't be empty", cur)]
              [] OTHER -> [ok |-> TRUE, ch |-> next.el.value, st |-> next.st]
    IN  IF ~first.ok THEN [ok |-> FALSE, err |-> first.err, st |-> first.st]
        ELSE LET last == SNext(first.st)
             IN  CASE last.el.value = QUOTE ->
                        [ok |-> TRUE, st |-> last.st,
                         tok |-> TokenNew("Char", <<first.ch>>, cur.line, cur.column)]
                   [] last.el.value \in {NUL, NL} ->
                        [ok |-> FALSE, st |-> last.st,
                         err |-> LexErrorFrom("Unterminated character literal", last.el)]
                   [] OTHER ->
                        [ok |-> FALSE, st |-> last.st,
                         err |-> LexErrorFrom("Invalid character sequence", last.el)]

\* the multi-character operators of Lex::lex: the Operator, or "" when the pair
\* is none of them
MultiCharOperator(c, n) ==
    CASE c = "=" /\ n = "=" -> "Eq"
      [] c = "!" /\ n = "=" -> "NotEq"
      [] c = ">" /\ n = "=" -> "GtEq"
      [] c = "<" /\ n = "=" -> "LtEq"
      [] c = "&" /\ n = "&" -> "And"
      [] c = "|" /\ n = "|" -> "Or"
      [] c = "+" /\ n = "+" -> "Inc"
      [] c = "+" /\ n = "=" -> "AddEq"
      [] c = "-" /\ n = "-" -> "Dec"
      [] c = "-" /\ n = "=" -> "SubEq"
      [] c = "-" /\ n = ">" -> "RetType"
      [] c = "*" /\ n = "*" -> "Pow"
      [] c = "*" /\ n = "=" -> "MulEq"
      [] c = "/" /\ n = "=" -> "DivEq"
      [] OTHER -> ""

\* the single character tokens of Lex::lex: <<tt, arg>>, or <<>> for an unknown
\* character
SingleCharToken(c) ==
    CASE c = "+" -> <<"Op", <<"Add">>>>
      [] c = "-" -> <<"Op", <<"Sub">>>>
      [] c = "*" -> <<"Op", <<"Mul">>>>
      [] c = "/" -> <<"Op", <<"Div">>>>
      [] c = ">" -> <<"Op", <<"Gt">>>>
      [] c = "<" -> <<"Op", <<"Lt">>>>
      [] c = "!" -> <<"Op", <<"Not">>>>
      [] c = "=" -> <<"Op", <<"Assign">>>>
      [] c = "&" -> <<"Op", <<"BitAnd">>>>
      [] c = "^" -> <<"Op", <<"BitXor">>>>
      [] c = "|" -> <<"Op", <<"BitOr">>>>
      [] c = "." -> <<"Dot", <<>>>>
      [] c = "}" -> <<"CloseBrace", <<>>>>
      [] c = "]" -> <<"CloseBracket", <<>>>>
      [] c = ")" -> <<"CloseParen", <<>>>>
      [] c = ":" -> <<"Colon", <<>>>>
      [] c = "," -> <<"Comma", <<>>>>
      [] c = "{" -> <<"OpenBrace", <<>>>>
      [] c = "[" -> <<"OpenBracket", <<>>>>
      [] c = "(" -> <<"OpenParen", <<>>>>
      [] c = ";" -> <<"Semicolon", <<"false">>>>
      [] OTHER -> <<>>

(***************************************************************************)
(* Lex::scan.  cur is the element `self.stream.next()` hands to Lex::lex.  *)
(***************************************************************************)
Cur == SNext(stream).el
AfterCur == SNext(stream).st

IdleTych ==
    /\ ast = <<>> /\ pos = 0 /\ tych = <<>> /\ typed = <<>>
    /\ tychState = "idle" /\ visits = <<>>

IdleFn == fnCall = <<>> /\ fnResult = <<>>

LexInit ==
    /\ src \in Sources(MaxChunks)
    /\ lines = SplitInclusive(src)
    /\ stream = [line |-> 0, column |-> 0, peeked |-> <<>>]
    /\ tokens = <<>>
    /\ lexState = "scanning"
    /\ lexErr = <<>>
    /\ IdleTych
    /\ IdleFn

\* the first read of an empty input, in a build that checks overflow
LexPanic ==
    /\ lexState = "scanning"
    /\ Underflows(stream)
    /\ lexState' = "panic"
    /\ UNCHANGED <<src, lines, stream, tokens, lexErr>>
    /\ UNCHANGED tychVars
    /\ UNCHANGED fnVars

IsInferredSemicolon == Cur.value = NL /\ ShouldAddSemicolon(tokens)

\* lex returns Semicolon(true) for the newline; scan pushes it
LexSemicolon ==
    /\ lexState = "scanning"
    /\ IsInferredSemicolon
    /\ tokens' = Append(tokens, TokenNew("Semicolon", <<"true">>, Cur.line, Cur.column))
    /\ stream' = AfterCur
    /\ UNCHANGED <<src, lines, lexState, lexErr>>
    /\ UNCHANGED tychVars
    /\ UNCHANGED fnVars

\* lex pushes the last semicolon itself and returns Eof; scan returns the tokens
LexEof ==
    /\ lexState = "scanning"
    /\ ~IsInferredSemicolon
    /\ IsEof(Cur)
    /\ tokens' = IF ShouldAddSemicolon(tokens)
                 THEN Append(tokens, TokenNew("Semicolon", <<"true">>,
                                              Last(tokens).line, Last(tokens).column + 1))
                 ELSE tokens
    /\ stream' = AfterCur
    /\ lexState' = "ok"
    /\ UNCHANGED <<src, lines, lexErr>>
    /\ UNCHANGED tychVars
    /\ UNCHANGED fnVars

\* lex skips the white space and calls itself
LexWhitespace ==
    /\ lexState = "scanning"
    /\ ~IsInferredSemicolon
    /\ ~IsEof(Cur)
    /\ IsAsciiWhitespace(Cur.value)
    /\ stream' = SkipWhitespace(AfterCur)
    /\ UNCHANGED <<src, lines, tokens, lexState, lexErr>>
    /\ UNCHANGED tychVars
    /\ UNCHANGED fnVars

IsComment == Cur.value = "/" /\ SPeek(AfterCur).el.value = "/"

\* lex skips the comment and calls itself
LexComment ==
    /\ lexState = "scanning"
    /\ IsComment
    /\ stream' = SkipComment(SPeek(AfterCur).st)
    /\ UNCHANGED <<src, lines, tokens, lexState, lexErr>>
    /\ UNCHANGED tychVars
    /\ UNCHANGED fnVars

LexIdent ==
    /\ lexState = "scanning"
    /\ IsAsciiAlphabetic(Cur.value)
    /\ LET r == TakeIdent(<<Cur.value>>, AfterCur)
       IN  /\ tokens' = Append(tokens, KeywordToken(r.text, Cur.line, Cur.column))
           /\ stream' = r.st
    /\ UNCHANGED <<src, lines, lexState, lexErr>>
    /\ UNCHANGED tychVars
    /\ UNCHANGED fnVars

LexNum ==
    /\ lexState = "scanning"
    /\ IsAsciiDigit(Cur.value)
    /\ LET r == TakeNum(<<Cur.value>>, AfterCur)
       IN  /\ tokens' = Append(tokens, TokenNew("Num", r.text, Cur.line, Cur.column))
           /\ stream' = r.st
    /\ UNCHANGED <<src, lines, lexState, lexErr>>
    /\ UNCHANGED tychVars
    /\ UNCHANGED fnVars

LexChar ==
    /\ lexState = "scanning"
    /\ Cur.value = QUOTE
    /\ LET r == LexCharLiteral(Cur, AfterCur)
       IN  /\ stream' = r.st
           /\ IF r.ok
              THEN /\ tokens' = Append(tokens, r.tok)
                   /\ UNCHANGED <<lexState, lexErr>>
              ELSE /\ lexState' = "err"
                   /\ lexErr' = <<r.err>>
                   /\ UNCHANGED tokens
    /\ UNCHANGED <<src, lines>>
    /\ UNCHANGED tychVars
    /\ UNCHANGED fnVars

\* none of the branches above took cur
IsOperatorOrPunctuation ==
    /\ ~IsInferredSemicolon
    /\ ~IsEof(Cur)
    /\ ~IsAsciiWhitespace(Cur.value)
    /\ ~IsComment
    /\ ~IsAsciiAlphanumeric(Cur.value)
    /\ Cur.value # QUOTE

LexMultiCharOp ==
    /\ lexState = "scanning"
    /\ IsOperatorOrPunctuation
    /\ LET p == SPeek(AfterCur)
           op == MultiCharOperator(Cur.value, p.el.value)
       IN  /\ op # ""
           /\ tokens' = Append(tokens, TokenNew("Op", <<op>>, Cur.line, Cur.column))
           /\ stream' = SNext(p.st).st
    /\ UNCHANGED <<src, lines, lexState, lexErr>>
    /\ UNCHANGED tychVars
    /\ UNCHANGED fnVars

LexSingleChar ==
    /\ lexState = "scanning"
    /\ IsOperatorOrPunctuation
    /\ LET p == SPeek(AfterCur)
           tt == SingleCharToken(Cur.value)
       IN  /\ MultiCharOperator(Cur.value, p.el.value) = ""
           /\ stream' = p.st
           /\ IF tt # <<>>
              THEN /\ tokens' = Append(tokens, TokenNew(tt[1], tt[2], Cur.line, Cur.column))
                   /\ UNCHANGED <<lexState, lexErr>>
              ELSE /\ lexState' = "err"
                   /\ lexErr' = <<LexErrorFrom("Unknown character", Cur)>>
                   /\ UNCHANGED tokens
    /\ UNCHANGED <<src, lines>>
    /\ UNCHANGED tychVars
    /\ UNCHANGED fnVars

LexNext ==
    \/ LexPanic
    \/ LexSemicolon
    \/ LexEof
    \/ LexWhitespace
    \/ LexComment
    \/ LexIdent
    \/ LexNum
    \/ LexChar
    \/ LexMultiCharOp
    \/ LexSingleChar

Spec == LexInit /\ [][LexNext]_vars

(***************************************************************************)
(* Lines that end in blanks or in a comment: a token, what lies between it *)
(* and the newline, and the next line.                                     *)
(***************************************************************************)
LineTokens ==
    { <<"a">>, <<"1">>, <<QUOTE, "a", QUOTE>>, <<"t", "r", "u", "e">>, <<")">>, <<"}">>,
      <<"]">>, <<"a", "+", "+">>, <<"a", "-", "-">>, <<"+">>, <<";">>, <<>> }

LineEnds ==
    { <<>>, <<SP>>, <<TAB>>, <<SP, TAB, SP>>, <<"/", "/">>, <<"/", "/", SP, "c">>,
      <<SP, "/", "/", SP, "c">> }

NextLines == { <<>>, <<"n">>, <<SP, "n">> }

LineSource(tok, end, next) == tok \o end \o <<NL>> \o next

LineInit ==
    /\ src \in { LineSource(tok, end, next) :
                    tok \in LineTokens, end \in LineEnds, next \in NextLines } \cup { <<>> }
    /\ lines = SplitInclusive(src)
    /\ stream = [line |-> 0, column |-> 0, peeked |-> <<>>]
    /\ tokens = <<>>
    /\ lexState = "scanning"
    /\ lexErr = <<>>
    /\ IdleTych
    /\ IdleFn

LineSpec == LineInit /\ [][LexNext]_vars

(***************************************************************************)
(* Properties of the lexer.                                                *)
(***************************************************************************)
\* the kinds after which a line end stands for a semicolon
InInferenceSet(t) ==
    \/ t.tt \in {"Ident", "Num", "Char", "Bool", "CloseBrace", "CloseParen", "CloseBracket"}
    \/ (t.tt = "Op" /\ t.arg \in {<<"Inc">>, <<"Dec">>})

IsSynthetic(t) == t.tt = "Semicolon" /\ t.arg = <<"true">>

LastInInferenceSet == tokens # <<>> /\ InInferenceSet(Last(tokens))

\* C1: when the character right after a token of the inference set is a
\* newline, the next token emitted is Semicolon(true) at the newline's position;
\* when it is the end of input, the scan ends with Semicolon(true) at (the
\* token's line, its column + 1) appended; a newline after any other token, or
\* at the start, emits nothing; and a synthetic semicolon is never followed by
\* a second one.
C1_SemicolonInference ==
    [][lexState = "scanning" =>
        /\ (LastInInferenceSet /\ Cur.value = NL) =>
              /\ tokens' = Append(tokens, TokenNew("Semicolon", <<"true">>, Cur.line, Cur.column))
              /\ lexState' = "scanning"
        /\ (LastInInferenceSet /\ IsEof(Cur)) =>
              /\ tokens' = Append(tokens, TokenNew("Semicolon", <<"true">>,
                                                   Last(tokens).line, Last(tokens).column + 1))
              /\ lexState' = "ok"
        /\ (~LastInInferenceSet /\ (Cur.value = NL \/ IsEof(Cur))) => tokens' = tokens
        /\ (tokens # <<>> /\ IsSynthetic(Last(tokens)) /\ tokens' # tokens) =>
              ~IsSynthetic(Last(tokens'))
    ]_vars

\* `a\nb`: a semicolon for the newline and one for the end of input
C1_Witness ==
    /\ lexState = "ok"
    /\ Len(tokens) = 4
    /\ tokens[1].tt = "Ident" /\ IsSynthetic(tokens[2])
    /\ tokens[2].line = 1 /\ tokens[2].column = 2
    /\ tokens[3].tt = "Ident" /\ IsSynthetic(tokens[4])
    /\ tokens[4].line = 2 /\ tokens[4].column = 2

\* C2: every Semicolon(true) of the token list directly follows a token of the
\* inference set (so it is never first and never follows a semicolon), and no
\* token of the list is Eof.
C2_SyntheticFollowsInferenceSet ==
    \A i \in 1..Len(tokens) :
        /\ tokens[i].tt # "Eof"
        /\ IsSynthetic(tokens[i]) => (i > 1 /\ InInferenceSet(tokens[i - 1]))

\* `1++` then a newline: the semicolon follows Op(Inc)
C2_Witness ==
    /\ lexState = "ok"
    /\ Len(tokens) = 3
    /\ tokens[2].tt = "Op" /\ tokens[2].arg = <<"Inc">>
    /\ IsSynthetic(tokens[3])

\* C3: scan ends with Ok or Err on every input, the stream's arithmetic never
\* underflowing, and on the empty input it ends Ok with no token.
C3_ScanReturnsOnEveryInput ==
    /\ lexState \in {"scanning", "ok", "err"}
    /\ (src = <<>> /\ lexState # "scanning") => (lexState = "ok" /\ tokens = <<>>)

\* the tokens of the inference set among the line tokens
InferenceLineTokens ==
    LineTokens \ { <<"+">>, <<";">>, <<>> }

\* the last token emitted for the first line is followed by Semicolon(true),
\* and that by the first token of the next line
SemicolonBeforeNextLine(end) ==
    \A tok \in InferenceLineTokens :
        (src = LineSource(tok, end, <<"n">>) /\ lexState = "ok") =>
            \E i \in 1..(Len(tokens) - 2) :
                /\ InInferenceSet(tokens[i]) /\ tokens[i].line = 1
                /\ IsSynthetic(tokens[i + 1])
                /\ tokens[i + 2].tt = "Ident" /\ tokens[i + 2].line = 2

\* C26: semicolon inference also applies when only spaces, tabs or a //
\* comment lie between a token of the inference set and the newline: scan
\* emits Semicolon(true) between that token and the first token of the next
\* line.
C26_InferenceAcrossBlanks ==
    \A end \in LineEnds : SemicolonBeforeNextLine(end)

\* (line, column) pairs compared lexicographically
PositionLeq(a, b) == a.line < b.line \/ (a.line = b.line /\ a.column <= b.column)

\* C4: along the token list the positions never decrease, and every line and
\* column is at least 1.
C4_PositionsNonDecreasing ==
    /\ \A i \in 1..Len(tokens) : tokens[i].line >= 1 /\ tokens[i].column >= 1
    /\ \A i \in 1..(Len(tokens) - 1) : PositionLeq(tokens[i], tokens[i + 1])

\* a scan that ended Ok with tokens on two lines and a semicolon at each line end
C4_Witness ==
    /\ lexState = "ok"
    /\ Len(tokens) = 4
    /\ IsSynthetic(tokens[2]) /\ IsSynthetic(tokens[4])
    /\ tokens[3].line = 2 /\ tokens[3].column = 1

\* how many characters of src stand before the element el
RECURSIVE CharsBeforeLine(_)
CharsBeforeLine(l) == IF l <= 1 THEN 0 ELSE Len(lines[l - 1]) + CharsBeforeLine(l - 1)

\* the text of src after the element el
RestAfter(el) == SubSeq(src, CharsBeforeLine(el.line) + el.column + 1, Len(src))

\* r starts with one character and a closing quote, or with one of the escapes
\* \n, \t, \' and a closing quote
IsCharLiteralBody(r) ==
    \/ Len(r) >= 2 /\ r[1] \notin {BSLASH, QUOTE} /\ r[2] = QUOTE
    \/ Len(r) >= 3 /\ r[1] = BSLASH /\ r[2] \in {"n", "t", QUOTE} /\ r[3] = QUOTE

CharLiteralValue(r) ==
    IF r[1] # BSLASH THEN r[1]
    ELSE IF r[2] = "n" THEN NL
    ELSE IF r[2] = "t" THEN TAB
    ELSE QUOTE

\* C5: where a character literal starts, the lexer emits a Char token (with the
\* character the literal denotes, at the opening quote's position) exactly when
\* the text after the opening quote is one character, other than a quote or a
\* backslash, and a closing quote, or one of the escapes \n, \t, \' and a
\* closing quote; in every other case (empty, two characters, unknown escape,
\* cut off by a newline or the end of input) scan returns a LexError.
C5_CharLiteral ==
    [][(lexState = "scanning" /\ Cur.value = QUOTE) =>
        LET r == RestAfter(Cur)
        IN  IF IsCharLiteralBody(r)
            THEN /\ tokens' = Append(tokens, TokenNew("Char", <<CharLiteralValue(r)>>,
                                                      Cur.line, Cur.column))
                 /\ lexState' = "scanning"
            ELSE /\ lexState' = "err"
                 /\ lexErr' # <<>>
    ]_vars

\* the literal '\'' was lexed
C5_Witness ==
    /\ lexState = "ok"
    /\ src = <<QUOTE, BSLASH, QUOTE, QUOTE>>
    /\ Len(tokens) = 2
    /\ tokens[1] = TokenNew("Char", <<QUOTE>>, 1, 1)

\* an unknown escape was refused
C5_WitnessError ==
    /\ lexState = "err"
    /\ src = <<QUOTE, BSLASH, "a">>

(***************************************************************************)
(* Part 2: the type checker.                                               *)
(*                                                                         *)
(* Types are records: [t |-> "Int32"], [t |-> "Comp", name |-> n].  An     *)
(* Option is a sequence of length 0 (None) or 1 (Some).                    *)
(***************************************************************************)
Prim(t) == [t |-> t]
Void == Prim("Void")
Int32 == Prim("Int32")
Bool == Prim("Bool")
Float == Prim("Float")
Char == Prim("Char")
Int64 == Prim("Int64")
Comp(n) == [t |-> "Comp", name |-> n]
SArray(inner, size) == [t |-> "SArray", inner |-> inner, size |-> size]

IntTypeNames == {"Int8", "Int16", "Int32", "Int64", "UInt8", "UInt16", "UInt32", "UInt64"}
FloatTypeNames == {"Float", "Double"}
PrimitiveNames == IntTypeNames \cup FloatTypeNames \cup {"Bool", "Char", "Void"}

ModuleName == "main"

\* SymbolTable: a stack of frames, the global frame first; a frame is the list
\* of its [key, sym] entries in insertion order
EnterScope(table) == Append(table, <<>>)
LeaveScope(table) == SubSeq(table, 1, Len(table) - 1)
ScopeDepth(table) == Len(table) - 1

FrameGet(frame, key) ==
    IF \E i \in 1..Len(frame) : frame[i].key = key
    THEN <<frame[CHOOSE i \in 1..Len(frame) : frame[i].key = key].sym>>
    ELSE <<>>

FramePut(frame, key, sym) ==
    IF \E i \in 1..Len(frame) : frame[i].key = key
    THEN [i \in 1..Len(frame) |->
            IF frame[i].key = key THEN [key |-> key, sym |-> sym] ELSE frame[i]]
    ELSE Append(frame, [key |-> key, sym |-> sym])

InsertWithName(table, key, sym) ==
    [table EXCEPT ![Len(table)] = FramePut(table[Len(table)], key, sym)]

Insert(table, sym) == InsertWithName(table, sym.name, sym)

\* the lexical search, from the innermost frame outwards
RECURSIVE GetFrom(_, _, _)
GetFrom(table, key, depth) ==
    IF depth = 0 THEN <<>>
    ELSE IF FrameGet(table[depth], key) # <<>> THEN FrameGet(table[depth], key)
    ELSE GetFrom(table, key, depth - 1)

Get(table, key) == GetFrom(table, key, Len(table))

\* Symbol::new_var
SymbolNewVar(name, ty) ==
    [name |-> name, data |-> [d |-> "Var", ty |-> ty], module |-> ModuleName]

\* Symbol::new_fn
SymbolNewFn(name, fq_name, args, ret_ty, is_extern) ==
    [name |-> name,
     data |-> [d |-> "Fn", fq_name |-> fq_name, args |-> args, ret_ty |-> ret_ty,
               is_extern |-> is_extern],
     module |-> ModuleName]

\* Type as Display writes it: a composite by its name
RECURSIVE TypeToString(_)
TypeToString(ty) ==
    IF ty.t = "Comp" THEN ty.name
    ELSE IF ty.t = "SArray"
    THEN "SArray(" \o TypeToString(ty.inner) \o ", " \o ToString(ty.size) \o ")"
    ELSE ty.t

\* Type from a string: the name of a primitive, or a composite of that name
TypeFromString(str) == IF str \in PrimitiveNames THEN Prim(str) ELSE Comp(str)

\* the argument signature of a fully qualified name
RECURSIVE ArgsStr(_, _)
ArgsStr(args, i) ==
    IF i > Len(args) THEN ""
    ELSE args[i][1] \o ":" \o TypeToString(args[i][2]) \o "~" \o ArgsStr(args, i + 1)

\* the fully qualified name: name, argument signature and return type
FqName(proto) == proto.name \o "~" \o ArgsStr(proto.args, 1) \o TypeToString(proto.ret_ty)

\* Symbol::from(&Prototype)
SymbolFromProto(proto, is_extern) ==
    SymbolNewFn(proto.name, FqName(proto), proto.args, proto.ret_ty, is_extern)

\* Tych::new: the primitives and the struct names of the table
TypeRegistry(table) ==
    PrimitiveNames \cup
    { table[1][i].key : i \in { j \in 1..Len(table[1]) : table[1][j].sym.data.d = "Struct" } }

\* Tych::resolve_type: Some(type) or None
ResolveType(ty, types) ==
    IF ty.t = "SArray" THEN <<ty>>
    ELSE IF ty.t = "Comp"
    THEN (IF ty.name \in types THEN <<Comp(ty.name)>>
          ELSE IF (ModuleName \o "::" \o ty.name) \in types
          THEN <<Comp(ModuleName \o "::" \o ty.name)>>
          ELSE <<>>)
    ELSE IF ty.t \in types THEN <<ty>>
    ELSE <<>>

\* the three results of a visit
Ok(node, st) == [res |-> "ok", node |-> node, st |-> st]
Err(msg, st) == [res |-> "err", msg |-> msg, st |-> st]
Panic(msg, st) == [res |-> "panic", msg |-> msg, st |-> st]

\* the ? operator: an error or a panic is returned, an Ok result goes on
Try(r, Continue(_)) == IF r.res # "ok" THEN r ELSE Continue(r)

\* Node::ty(): only expression nodes carry a type
NodeTy(node) == IF "ty" \in DOMAIN node THEN node.ty ELSE <<>>
UnwrapOrDefault(opt) == IF opt = <<>> THEN Void ELSE opt[1]

\* A u64 is the sequence of its four 16 bit digits, the most significant
\* first: the values of the literals do not fit the integers of the checker.
U64(n) == <<0, 0, 0, n>>

RECURSIVE WideLeqFrom(_, _, _)
WideLeqFrom(a, b, i) ==
    IF i > Len(a) THEN TRUE
    ELSE IF a[i] # b[i] THEN a[i] < b[i]
    ELSE WideLeqFrom(a, b, i + 1)

WideLeq(a, b) == WideLeqFrom(a, b, 1)

\* the greatest value of the integer type named t
IntMax(t) ==
    CASE t = "Int8" -> <<0, 0, 0, 127>>
      [] t = "Int16" -> <<0, 0, 0, 32767>>
      [] t = "Int32" -> <<0, 0, 32767, 65535>>
      [] t = "Int64" -> <<32767, 65535, 65535, 65535>>
      [] t = "UInt8" -> <<0, 0, 0, 255>>
      [] t = "UInt16" -> <<0, 0, 0, 65535>>
      [] t = "UInt32" -> <<0, 0, 65535, 65535>>
      [] t = "UInt64" -> <<65535, 65535, 65535, 65535>>

\* whether the u64 v converts to the integer type named t (convert_num!)
IntFits(v, t) == WideLeq(v, IntMax(t))

\* the conversion that wraps instead of failing
I32TryFromWrapping(v) == TRUE

\* i32::try_from(v) is Ok
I32TryFrom(v) == WideLeq(v, <<0, 0, 32767, 65535>>)

RECURSIVE Visit(_, _)

\* the hint kept when none is given
CheckNodeKeepingHint(node, hint, st) ==
    Visit(node, IF hint = <<>> THEN st ELSE [st EXCEPT !.hint = hint])

\* Tych::check_node: sets the hint, then visits
CheckNode(node, hint, st) == Visit(node, [st EXCEPT !.hint = hint])

\* the loop of Tych::check_lit_array over elements[i..]: an Ok result carries
\* the checked elements
RECURSIVE CheckLitArrayElements(_, _, _, _, _)
CheckLitArrayElements(elements, i, chkd, ty, st) ==
    IF i > Len(elements) THEN Ok(chkd, st)
    ELSE Try(CheckNode(elements[i], <<ty>>, st), LAMBDA r :
             IF UnwrapOrDefault(NodeTy(r.node)) # ty
             THEN Err("Array literal's element wrong type", r.st)
             ELSE CheckLitArrayElements(elements, i + 1, Append(chkd, r.node), ty, r.st))

\* the size check that lets one more element through
ArrayTooBigOffByOne(len, size) == len > size + 1

\* Tych::check_lit_array: the literal against the declared size
ArrayTooBig(len, size) == len > size

\* Tych::check_lit_array: the type of the checked literal
ArrayLitTy(ty, size, len) == SArray(ty, size)

\* Tych::check_lit_array: an Ok result carries [lit: the literal, ty: its type]
CheckLitArray(lit, ty_hint, st) ==
    IF ty_hint = <<>> THEN Panic("called Option::unwrap() on a None value", st)
    ELSE IF ty_hint[1].t # "SArray" THEN Panic("array literal has invalid type hint", st)
    ELSE IF ArrayTooBig(Len(lit.elements), ty_hint[1].size)
    THEN Err("SArray literal too big in assignment", st)
    ELSE Try(CheckLitArrayElements(lit.elements, 1, <<>>, ty_hint[1].inner, st), LAMBDA r :
             Ok([lit |-> [lit |-> "Array", elements |-> r.node,
                          inner_ty |-> <<ty_hint[1].inner>>],
                 ty |-> ArrayLitTy(ty_hint[1].inner, ty_hint[1].size, Len(lit.elements))],
                r.st))

\* Tych::visit_lit; value is [lit |-> kind, v |-> value], or
\* [lit |-> "Array", elements |-> nodes, inner_ty |-> Option] for an array
VisitLit(node, st) ==
    LET lit == node.value
        Typed(kind, ty) == Ok([kind |-> "Lit", value |-> [lit |-> kind, v |-> lit.v],
                               ty |-> <<Prim(ty)>>], st)
        ArrayLit(r) == IF r.res # "ok" THEN r
                       ELSE Ok([kind |-> "Lit", value |-> r.node.lit, ty |-> <<r.node.ty>>], r.st)
    IN  IF st.hint # <<>>
        THEN (LET hint == st.hint[1]
             IN  CASE lit.lit \in IntTypeNames \ {"UInt64"} -> Typed(lit.lit, lit.lit)
                   [] lit.lit = "UInt64" ->
                        (CASE hint.t \in IntTypeNames ->
                                 IF IntFits(lit.v, hint.t) THEN Typed(hint.t, hint.t)
                                 ELSE Err("Numeric literal out of range", st)
                           [] hint.t \in FloatTypeNames -> Err("Literal is an integer in a float context", st)
                           [] hint.t = "Bool" -> Err("Literal is an integer in a bool context", st)
                           [] hint.t = "Char" -> Err("Literal is an integer in a char context", st)
                           [] hint.t = "SArray" -> Err("Literal is an integer in an sarray context", st)
                           [] hint.t = "Void" -> Err("Literal is an integer in a void context", st)
                           [] hint.t = "Comp" -> Err("Literal is an integer in a compound context", st))
                   [] lit.lit = "Float" ->
                        (CASE hint.t \in FloatTypeNames -> Typed(hint.t, hint.t)
                           [] hint.t \in IntTypeNames -> Err("Literal is a float in an integer context", st)
                           [] hint.t = "Bool" -> Err("Literal is a float in a bool context", st)
                           [] hint.t = "Char" -> Err("Literal is a float in a char context", st)
                           [] hint.t = "SArray" -> Err("Literal is a float in an sarray context", st)
                           [] OTHER -> Panic("float conversion error", st))
                   [] lit.lit \in {"Double", "Bool", "Char"} -> Typed(lit.lit, lit.lit)
                   [] lit.lit = "Array" -> ArrayLit(CheckLitArray(lit, <<hint>>, st))
                   [] OTHER -> Panic("composite types don't exist in the tych", st))
        ELSE CASE lit.lit = "Int32" -> Typed("Int32", "Int32")
               [] lit.lit = "UInt64" ->
                    IF I32TryFrom(lit.v) THEN Typed("Int32", "Int32")
                    ELSE Err("Numeric literal out of range", st)
               [] lit.lit \in {"Float", "Bool", "Char"} -> Typed(lit.lit, lit.lit)
               [] lit.lit = "Array" -> ArrayLit(CheckLitArray(lit, <<>>, st))
               [] OTHER -> Panic("numeric conversion error", st)

\* Tych::visit_ident; Symbol::ty() is unreachable!() for a symbol that is no variable
VisitIdent(node, st) ==
    LET sym == Get(st.table, node.name)
    IN  IF sym = <<>> THEN Err("Unknown variable", st)
        ELSE IF sym[1].data.d # "Var" THEN Panic("expected symbol to be a variable", st)
        ELSE Ok([kind |-> "Ident", name |-> node.name, ty |-> <<sym[1].data.ty>>], st)

\* Tych::check_var_init; the node of an Ok result is the Option of the checked init
CheckVarInit(init, antn, st) ==
    IF init = <<>> THEN Ok(<<>>, st)
    ELSE Try(CheckNode(init[1], <<antn>>, st), LAMBDA r :
             IF antn # UnwrapOrDefault(NodeTy(r.node))
             THEN Err("Types don't match", r.st)
             ELSE Ok(<<r.node>>, r.st))

\* Tych::visit_let, the annotation resolved
VisitLetResolved(node, antn, st) ==
    IF st.current_struct = <<>>
    THEN Try(CheckVarInit(node.init, antn,
                          [st EXCEPT !.table = Insert(st.table, SymbolNewVar(node.name, antn))]),
             LAMBDA r : Ok([kind |-> "Let", name |-> node.name, antn |-> antn, init |-> r.node],
                           r.st))
    ELSE IF node.init # <<>>
    THEN Err("initializers aren't supported for struct fields", st)
    ELSE Ok([kind |-> "Let", name |-> node.name, antn |-> antn, init |-> <<>>], st)

\* Tych::visit_let
VisitLet(node, st) ==
    IF ResolveType(node.antn, st.types) = <<>>
    THEN Err("Unknown type in let declaration", st)
    ELSE VisitLetResolved(node, ResolveType(node.antn, st.types)[1], st)

\* the scope left open
VisitForKeepScope(table) == table

\* Tych::visit_for, its last statement before the result
VisitForLeaveScope(table) == LeaveScope(table)

\* any step taken
StepMismatchUnchecked(step_ty, start_antn) == FALSE

\* Tych::visit_for: the type of the step against the type of the variable
StepMismatch(step_ty, start_antn) == step_ty # start_antn

\* Tych::visit_for, from the check of the condition on
VisitForResolved(node, antn, start_expr, st) ==
    Try(CheckNode(node.cond_expr, <<>>, st), LAMBDA r2 :
        IF UnwrapOrDefault(NodeTy(r2.node)) # Bool
        THEN Err("For loop conditional should always be a bool", r2.st) ELSE
    Try(CheckNode(node.step_expr, <<antn>>, r2.st), LAMBDA r3 :
        IF StepMismatch(UnwrapOrDefault(NodeTy(r3.node)), antn)
        THEN Err("Step type mismatch in for statement", r3.st) ELSE
    Try(CheckNode(node.body, <<>>, r3.st), LAMBDA r4 :
        Ok([kind |-> "For", start_name |-> node.start_name, start_antn |-> antn,
            start_expr |-> start_expr, cond_expr |-> r2.node, step_expr |-> r3.node,
            body |-> r4.node],
           [r4.st EXCEPT !.table = VisitForLeaveScope(r4.st.table)]))))

\* Tych::visit_for
VisitFor(node, st) ==
    Try(CheckVarInit(node.start_expr, node.start_antn,
                     [st EXCEPT !.table = Insert(EnterScope(st.table),
                                                 SymbolNewVar(node.start_name, node.start_antn))]),
        LAMBDA r1 :
            IF ResolveType(node.start_antn, r1.st.types) = <<>>
            THEN Err("Unknown type for start declaration in for loop", r1.st)
            ELSE VisitForResolved(node, ResolveType(node.start_antn, r1.st.types)[1],
                                  r1.node, r1.st))

\* the hint of the block handed on to its children
BlockChildHintInherited(st) == st.hint

\* Tych::visit_block: the hint its children are checked with, None
BlockChildHint(st) == <<>>

\* the loop of Tych::visit_block over list[i..]: an Ok result carries
\* [list: the checked nodes, ty: the type of the last one]
RECURSIVE VisitBlockList(_, _, _, _, _)
VisitBlockList(list, i, chkd, list_ty, st) ==
    IF i > Len(list) THEN Ok([list |-> chkd, ty |-> list_ty], st)
    ELSE Try(CheckNode(list[i], BlockChildHint(st), st), LAMBDA r :
             VisitBlockList(list, i + 1, Append(chkd, r.node),
                            UnwrapOrDefault(NodeTy(r.node)), r.st))

\* the scope left open
VisitBlockKeepScope(table) == table

\* Tych::visit_block, its last statement before the result
VisitBlockLeaveScope(table) == LeaveScope(table)

\* Tych::visit_block
VisitBlock(node, st) ==
    Try(VisitBlockList(node.list, 1, <<>>, Void, [st EXCEPT !.table = EnterScope(st.table)]),
        LAMBDA r : Ok([kind |-> "Block", list |-> r.node.list, ty |-> <<r.node.ty>>],
                      [r.st EXCEPT !.table = VisitBlockLeaveScope(r.st.table)]))

\* the loop of Tych::visit_fn over the arguments: an Ok result carries the
\* resolved arguments
RECURSIVE VisitFnArgs(_, _, _, _)
VisitFnArgs(args, i, resolved, st) ==
    IF i > Len(args) THEN Ok(resolved, st)
    ELSE IF ResolveType(args[i][2], st.types) = <<>>
    THEN Err("Unknown argument type in prototype", st)
    ELSE VisitFnArgs(args, i + 1,
                     Append(resolved, <<args[i][1], ResolveType(args[i][2], st.types)[1]>>),
                     [st EXCEPT !.table =
                         Insert(st.table,
                                SymbolNewVar(args[i][1], ResolveType(args[i][2], st.types)[1]))])

\* main's annotation never looked at
MainIsAnnotatedUnchecked(name, ret_ty) == FALSE

\* Tych::visit_fn: main with a return annotation
MainIsAnnotated(name, ret_ty) == name = "main" /\ ret_ty # Void

\* Void written to every prototype
ProtoRetTyAlwaysVoid(name, ret_ty) == Void

\* Tych::visit_fn: the return type written back to the prototype
ProtoRetTy(name, ret_ty) == IF name = "main" THEN Void ELSE ret_ty

\* the Void exemption taken from the body's side
ReturnMismatchVoidBody(name, ret_ty, body_ty) ==
    ret_ty # body_ty /\ body_ty # Void /\ name # "main"

\* Tych::visit_fn: the body's type against the return type
ReturnMismatch(name, ret_ty, body_ty) ==
    ret_ty # body_ty /\ ret_ty # Void /\ name # "main"

\* Tych::visit_fn, the body checked: proto has the resolved arguments
VisitFnChecked(proto, fn_entry, ret_ty, body_node, st) ==
    IF MainIsAnnotated(proto.name, ret_ty)
    THEN Err("main()'s return value shouldn't be annotated", st)
    ELSE IF ReturnMismatch(proto.name, ret_ty, UnwrapOrDefault(NodeTy(body_node)))
    THEN (IF fn_entry.data.d # "Fn"
          THEN Panic("expected symbol to be a function", st)
          ELSE Err("Function should return its return type", st))
    ELSE Ok([kind |-> "Fn", proto |-> [proto EXCEPT !.ret_ty = ProtoRetTy(proto.name, ret_ty)],
             body |-> <<body_node>>],
            [st EXCEPT !.table =
                InsertWithName(LeaveScope(st.table), proto.name,
                    SymbolFromProto([proto EXCEPT !.ret_ty = ProtoRetTy(proto.name, ret_ty)],
                                    FALSE))])

\* Tych::visit_fn, from enter_scope on
VisitFnBody(node, fn_entry, ret_ty, st) ==
    Try(VisitFnArgs(node.proto.args, 1, <<>>,
                    IF st.current_struct # <<>>
                    THEN [st EXCEPT !.table =
                             Insert(EnterScope(st.table),
                                    SymbolNewVar("self", Comp(st.current_struct[1])))]
                    ELSE [st EXCEPT !.table = EnterScope(st.table)]),
        LAMBDA ra :
    Try(CheckNode(node.body[1], <<>>, ra.st), LAMBDA rb :
        VisitFnChecked([node.proto EXCEPT !.args = ra.node], fn_entry, ret_ty, rb.node, rb.st)))

\* Tych::visit_fn
VisitFn(node, st) ==
    IF Get(st.table, node.proto.name) = <<>>
    THEN Panic("missing symbol table entry for function", st)
    ELSE IF ResolveType(node.proto.ret_ty, st.types) = <<>>
    THEN Err("Unknown return type in prototype", st)
    ELSE IF node.body = <<>>
    THEN Ok([kind |-> "Fn", proto |-> node.proto, body |-> <<>>], st)
    ELSE VisitFnBody(node, Get(st.table, node.proto.name)[1],
                     ResolveType(node.proto.ret_ty, st.types)[1], st)

NumericTypeNames == IntTypeNames \cup FloatTypeNames

\* Symbol::new_struct
SymbolNewStruct(name, fields, methods) ==
    [name |-> name, data |-> [d |-> "Struct", fields |-> fields, methods |-> methods],
     module |-> ModuleName]

\* SymbolTable::resolve_symbol: the name, then the name qualified by the module
ResolveSymbol(table, name) ==
    IF Get(table, name) # <<>> THEN Get(table, name)
    ELSE Get(table, ModuleName \o "::" \o name)

\* Node::is_num_literal: an integer or a float literal
IsNumLiteral(node) ==
    node.kind = "Lit" /\ node.value.lit \in NumericTypeNames

AssignOps == {"Assign", "AddEq", "SubEq", "MulEq", "DivEq"}
LogicOps == {"And", "Or"}
EqOps == {"Eq", "NotEq"}
CmpOps == {"Gt", "GtEq", "Lt", "LtEq"}
ArithOps == {"Add", "Div", "Mul", "Pow", "Sub", "BitAnd", "BitXor", "BitOr"}

\* Tych::visit_binop: an assignment whose left hand side is no variable
LhsIsNotAVar(op, lhs) ==
    op = "Assign" /\ lhs.kind \notin {"Ident", "Index", "FSelector"}

\* comparisons that take bools too
BinopTyCmpBool(op, ty) ==
    CASE op \in LogicOps -> IF ty = Bool THEN <<Bool>> ELSE <<>>
      [] op \in EqOps \cup CmpOps ->
            IF ty.t \in NumericTypeNames \cup {"Bool", "Char"} THEN <<Bool>> ELSE <<>>
      [] op \in ArithOps -> IF ty.t \in NumericTypeNames THEN <<ty>> ELSE <<>>
      [] OTHER -> <<Void>>

\* Tych::visit_binop: the type of op on two operands of type ty, None when
\* the operator does not take them
BinopTy(op, ty) ==
    CASE op \in LogicOps -> IF ty = Bool THEN <<Bool>> ELSE <<>>
      [] op \in EqOps ->
            IF ty.t \in NumericTypeNames \cup {"Bool", "Char"} THEN <<Bool>> ELSE <<>>
      [] op \in CmpOps ->
            IF ty.t \in NumericTypeNames \cup {"Char"} THEN <<Bool>> ELSE <<>>
      [] op \in ArithOps -> IF ty.t \in NumericTypeNames THEN <<ty>> ELSE <<>>
      [] OTHER -> <<Void>>

\* Tych::visit_binop: both operands checked, the literal side last; an Ok
\* result carries [lhs, rhs]
BinopOperands(node, st) ==
    IF IsNumLiteral(node.lhs)
    THEN Try(CheckNode(node.rhs, <<>>, st), LAMBDA r :
         Try(CheckNode(node.lhs, <<UnwrapOrDefault(NodeTy(r.node))>>, r.st), LAMBDA l :
             Ok([lhs |-> l.node, rhs |-> r.node], l.st)))
    ELSE Try(CheckNode(node.lhs, <<>>, st), LAMBDA l :
         Try(CheckNode(node.rhs, <<UnwrapOrDefault(NodeTy(l.node))>>, l.st), LAMBDA r :
             Ok([lhs |-> l.node, rhs |-> r.node], r.st)))

\* Tych::visit_binop, both operands checked
BinopChecked(op, lhs, rhs, st) ==
    IF UnwrapOrDefault(NodeTy(lhs)) # UnwrapOrDefault(NodeTy(rhs))
    THEN Err("Mismatched types in binop", st)
    ELSE IF BinopTy(op, UnwrapOrDefault(NodeTy(lhs))) = <<>>
    THEN Err("Invalid type combination found in operation", st)
    ELSE Ok([kind |-> "BinOp", op |-> op, lhs |-> lhs, rhs |-> rhs,
             ty |-> BinopTy(op, UnwrapOrDefault(NodeTy(lhs)))], st)

\* Tych::visit_binop
VisitBinop(node, st) ==
    IF LhsIsNotAVar(node.op, node.lhs)
    THEN Err("Expected LHS to be a variable for assignment", st)
    ELSE Try(BinopOperands(node, st), LAMBDA r :
             BinopChecked(node.op, r.node.lhs, r.node.rhs, r.st))

\* the node left without a type
UnopTyUnset(rhs_ty) == <<>>

\* Tych::visit_unop: the type given to the node
UnopTy(rhs_ty) == <<rhs_ty>>

\* Tych::visit_unop
VisitUnop(node, st) ==
    Try(CheckNode(node.rhs, <<>>, st), LAMBDA r :
        IF UnwrapOrDefault(NodeTy(r.node)).t \notin NumericTypeNames
        THEN Err("Expected numeric type in unary operation", r.st)
        ELSE Ok([kind |-> "UnOp", op |-> node.op, rhs |-> r.node,
                 ty |-> UnopTy(UnwrapOrDefault(NodeTy(r.node)))], r.st))

\* the loop of Tych::visit_call that checks the arguments, each with the
\* declared type of its parameter as hint: an Ok result carries the checked nodes
RECURSIVE CheckCallArgs(_, _, _, _, _)
CheckCallArgs(args, i, chkd, fe_arg_tys, st) ==
    IF i > Len(args) THEN Ok(chkd, st)
    ELSE Try(CheckNode(args[i], <<fe_arg_tys[i]>>, st), LAMBDA r :
             CheckCallArgs(args, i + 1, Append(chkd, r.node), fe_arg_tys, r.st))

\* the loop of Tych::visit_call that compares the types of the arguments
\* with the resolved types of the parameters
RECURSIVE CompareCallArgs(_, _, _, _)
CompareCallArgs(chkd, i, fe_arg_tys, st) ==
    IF i > Len(chkd) THEN Ok(chkd, st)
    ELSE LET fp_ty == ResolveType(fe_arg_tys[i], st.types)
         IN  IF fp_ty = <<>> THEN Panic("bad arg type in visit_call()", st)
             ELSE IF fp_ty[1] # UnwrapOrDefault(NodeTy(chkd[i]))
             THEN Err("Type mismatch in arg of call", st)
             ELSE CompareCallArgs(chkd, i + 1, fe_arg_tys, st)

\* Tych::visit_call: the number of arguments against the number of parameters
ArgCountMismatch(fe_arg_tys, args) == Len(fe_arg_tys) # Len(args)

\* the source name kept in the call
CallNameUnresolved(name, fn_entry) == name

\* Tych::visit_call: the name written to the call, Symbol::fq_name() unwrapped
CallName(name, fn_entry) ==
    IF fn_entry.data.d = "Fn" THEN fn_entry.data.fq_name ELSE fn_entry.name

\* Symbol::arg_tys of a function symbol
ArgTys(fn_entry) == [i \in 1..Len(fn_entry.data.args) |-> fn_entry.data.args[i][2]]

\* Tych::visit_call, the symbol of the callee found
VisitCallOf(node, fn_entry, st) ==
    IF fn_entry.data.d \notin {"Fn", "Struct"}
    THEN Panic("non-function symbol in visit_call()", st)
    ELSE IF fn_entry.data.d # "Fn" THEN Panic("expected symbol to be a function", st)
    ELSE IF ArgCountMismatch(ArgTys(fn_entry), node.args)
    THEN Err("Call takes a different number of args", st)
    ELSE IF ResolveType(fn_entry.data.ret_ty, st.types) = <<>>
    THEN Panic("unknown return type in visit_call()", st)
    ELSE Try(CheckCallArgs(node.args, 1, <<>>, ArgTys(fn_entry), st), LAMBDA r :
         Try(CompareCallArgs(r.node, 1, ArgTys(fn_entry), r.st), LAMBDA c :
             Ok([kind |-> "Call", name |-> CallName(node.name, fn_entry), args |-> r.node,
                 ty |-> ResolveType(fn_entry.data.ret_ty, st.types)], r.st)))

\* Tych::visit_call
VisitCall(node, st) ==
    IF ResolveSymbol(st.table, node.name) = <<>>
    THEN Err("Call to undefined function", st)
    ELSE VisitCallOf(node, ResolveSymbol(st.table, node.name)[1], st)

\* the else branch never compared
CondMismatchUnchecked(then_ty, else_ty) == FALSE

\* Tych::visit_cond: the two branches disagree
CondMismatch(then_ty, else_ty) == then_ty # else_ty

\* Tych::visit_cond
VisitCond(node, st) ==
    Try(CheckNode(node.cond_expr, <<>>, st), LAMBDA c :
        IF UnwrapOrDefault(NodeTy(c.node)) # Bool
        THEN Err("Conditional should always be a bool", c.st) ELSE
    Try(CheckNode(node.then_block, <<>>, c.st), LAMBDA t :
        IF node.else_block = <<>>
        THEN Ok([kind |-> "Cond", cond_expr |-> c.node, then_block |-> t.node,
                 else_block |-> <<>>, ty |-> <<UnwrapOrDefault(NodeTy(t.node))>>], t.st) ELSE
    Try(CheckNode(node.else_block[1], <<UnwrapOrDefault(NodeTy(t.node))>>, t.st), LAMBDA e :
        IF CondMismatch(UnwrapOrDefault(NodeTy(t.node)), UnwrapOrDefault(NodeTy(e.node)))
        THEN Err("Both arms of conditional must be the same type", e.st)
        ELSE Ok([kind |-> "Cond", cond_expr |-> c.node, then_block |-> t.node,
                 else_block |-> <<e.node>>, ty |-> <<UnwrapOrDefault(NodeTy(t.node))>>],
                e.st))))

\* Tych::visit_index
VisitIndex(node, st) ==
    Try(CheckNode(node.binding, <<>>, st), LAMBDA b :
        IF UnwrapOrDefault(NodeTy(b.node)).t # "SArray" THEN Err("Can't index", b.st) ELSE
    Try(CheckNode(node.idx, <<Int32>>, b.st), LAMBDA i :
        IF UnwrapOrDefault(NodeTy(i.node)).t \notin IntTypeNames
        THEN Err("Array index must be an int", i.st)
        ELSE IF UnwrapOrDefault(NodeTy(i.node)) # Int32
        THEN Err("Index must be an int32 (for now)", i.st)
        ELSE Ok([kind |-> "Index", binding |-> b.node, idx |-> i.node,
                 ty |-> <<UnwrapOrDefault(NodeTy(b.node)).inner>>], i.st)))

\* Tych::get_composite_symbol: an Ok result carries the symbol
GetCompositeSymbol(ty, st) ==
    IF ty = <<>> THEN Panic("no type for for selector target in tych", st)
    ELSE IF ty[1].t # "Comp" THEN Err("Attempt to use selector on non-composite type", st)
    ELSE IF ResolveSymbol(st.table, ty[1].name) = <<>> THEN Err("Unknown composite type", st)
    ELSE Ok(ResolveSymbol(st.table, ty[1].name)[1], st)

\* the type written for the first field of that name in the struct symbol:
\* None when the struct has no such field
FieldType(sym, field) ==
    LET fields == IF sym.data.fields = <<>> THEN <<>> ELSE sym.data.fields[1]
        found == { i \in 1..Len(fields) : fields[i][1] = field }
    IN  IF found = {} THEN <<>>
        ELSE <<TypeFromString(fields[CHOOSE i \in found : \A j \in found : i <= j][2])>>

\* Tych::visit_fselector, the symbol of the composite found
FSelectorOf(comp, sym, field, st) ==
    IF sym.data.d # "Struct" THEN Panic("expected symbol to be a struct", st)
    ELSE IF FieldType(sym, field) = <<>> THEN Err("composite has no field", st)
    ELSE IF ResolveType(FieldType(sym, field)[1], st.types) = <<>>
    THEN Panic("bad field selector type in visit_fselector()", st)
    ELSE Ok([kind |-> "FSelector", comp |-> comp, field |-> field,
             ty |-> ResolveType(FieldType(sym, field)[1], st.types)], st)

\* Tych::visit_fselector
VisitFSelector(node, st) ==
    Try(CheckNode(node.comp, <<>>, st), LAMBDA c :
    Try(GetCompositeSymbol(NodeTy(c.node), c.st), LAMBDA s :
        FSelectorOf(c.node, s.node, node.field, c.st)))

\* fields.iter().map(check_node).collect() of Tych::visit_struct: the nodes
\* checked in order without a hint, up to the first error
RECURSIVE CheckNodes(_, _, _, _)
CheckNodes(list, i, chkd, st) ==
    IF i > Len(list) THEN Ok(chkd, st)
    ELSE Try(CheckNode(list[i], <<>>, st), LAMBDA r :
             CheckNodes(list, i + 1, Append(chkd, r.node), r.st))

\* the (name, type) pairs of the checked field declarations
RECURSIVE SymFields(_, _)
SymFields(chkd_fields, i) ==
    IF i > Len(chkd_fields) THEN <<>>
    ELSE IF chkd_fields[i].kind = "Let"
    THEN << <<chkd_fields[i].name, TypeToString(chkd_fields[i].antn)>> >>
         \o SymFields(chkd_fields, i + 1)
    ELSE SymFields(chkd_fields, i + 1)

\* Tych::visit_struct, fields and methods checked and current_struct reset
VisitStructChecked(name, chkd_fields, chkd_methods, sym, st) ==
    IF sym = <<>> THEN Panic("missing symbol table entry in visit_struct()", st)
    ELSE IF sym[1].data.d # "Struct" THEN Panic("expected symbol to be a struct", st)
    ELSE IF sym[1].data.methods = <<>>
    THEN Panic("missing struct symbol methods in visit_struct()", st)
    ELSE Ok([kind |-> "Struct", name |-> name, fields |-> chkd_fields,
             methods |-> chkd_methods],
            [st EXCEPT !.table =
                Insert(st.table,
                       SymbolNewStruct(name, <<SymFields(chkd_fields, 1)>>,
                                       sym[1].data.methods))])

\* Tych::visit_struct
VisitStruct(node, st) ==
    IF ScopeDepth(st.table) # 0
    THEN Err("structs can only be defined at the global level", st)
    ELSE Try(CheckNodes(node.fields, 1, <<>>, [st EXCEPT !.current_struct = <<node.name>>]),
             LAMBDA f :
         Try(CheckNodes(node.methods, 1, <<>>, f.st), LAMBDA m :
             VisitStructChecked(node.name, f.node, m.node, Get(m.st.table, node.name),
                                [m.st EXCEPT !.current_struct = <<>>])))

\* the receiver put before the arguments
MSelectorCallArgsWithReceiver(comp, args) == <<comp>> \o args

\* Tych::visit_mselector: the arguments given to visit_call
MSelectorCallArgs(comp, args) == args

\* the name of the function of a method: _<Struct>_<method>
CookedMethodName(struct_name, method_name) == "_" \o struct_name \o "_" \o method_name

\* the methods listed in a struct symbol, none for a symbol without a list
SymMethods(sym) == IF sym.data.methods = <<>> THEN <<>> ELSE sym.data.methods[1]

\* Tych::visit_mselector, the call checked: the selector takes the name, the
\* arguments and the type of the call
MSelectorOfCall(comp, call, st) ==
    Ok([kind |-> "MSelector", comp |-> comp, name |-> call.name, args |-> call.args,
        ty |-> call.ty], st)

\* Tych::visit_mselector, the symbol of the composite found
MSelectorOf(node, comp, sym, st) ==
    IF sym.data.d # "Struct" THEN Panic("expected symbol to be a struct", st)
    ELSE IF \A k \in 1..Len(SymMethods(sym)) : SymMethods(sym)[k] # node.name
    THEN Err("composite has no method", st)
    ELSE Try(VisitCall([kind |-> "Call", name |-> CookedMethodName(sym.name, node.name),
                        args |-> MSelectorCallArgs(comp, node.args), ty |-> node.ty], st),
             LAMBDA c : MSelectorOfCall(comp, c.node, c.st))

\* Tych::visit_mselector
VisitMSelector(node, st) ==
    Try(CheckNode(node.comp, <<>>, st), LAMBDA c :
    Try(GetCompositeSymbol(NodeTy(c.node), c.st), LAMBDA s :
        MSelectorOf(node, c.node, s.node, c.st)))

\* Node::accept: the visit_* of the node's kind
Accept(node, st) ==
    CASE node.kind = "For" -> VisitFor(node, st)
      [] node.kind = "Let" -> VisitLet(node, st)
      [] node.kind = "Fn" -> VisitFn(node, st)
      [] node.kind = "Lit" -> VisitLit(node, st)
      [] node.kind = "Ident" -> VisitIdent(node, st)
      [] node.kind = "Block" -> VisitBlock(node, st)
      [] node.kind = "BinOp" -> VisitBinop(node, st)
      [] node.kind = "UnOp" -> VisitUnop(node, st)
      [] node.kind = "Call" -> VisitCall(node, st)
      [] node.kind = "Cond" -> VisitCond(node, st)
      [] node.kind = "Index" -> VisitIndex(node, st)
      [] node.kind = "FSelector" -> VisitFSelector(node, st)
      [] node.kind = "Struct" -> VisitStruct(node, st)
      [] node.kind = "MSelector" -> VisitMSelector(node, st)

\* the record of a visit added to the history; first is the index of the first
\* record of the visits made within it
Logged(node, st, r) ==
    [r EXCEPT !.st.log = Append(r.st.log,
        [kind |-> node.kind, node |-> node, res |-> r.res,
         out |-> IF r.res = "ok" THEN <<r.node>> ELSE <<>>,
         hint |-> st.hint, before |-> st.table, after |-> r.st.table,
         first |-> Len(st.log) + 1])]

\* Tych::visit_node
Visit(node, st) == Logged(node, st, Accept(node, st))

(***************************************************************************)
(* The trees given to the type checker.                                    *)
(***************************************************************************)
\* the value of a literal is a sequence of numbers: the digits of an integer,
\* the integer and fraction of 1.0, the code of 'a', 1 for true
LitW(v) == [kind |-> "Lit", value |-> [lit |-> "UInt64", v |-> v], ty |-> <<>>]
LitU(n) == LitW(U64(n))
LitF == [kind |-> "Lit", value |-> [lit |-> "Float", v |-> <<1, 0>>], ty |-> <<>>]
LitC == [kind |-> "Lit", value |-> [lit |-> "Char", v |-> <<97>>], ty |-> <<>>]
LitArray(elements) ==
    [kind |-> "Lit", value |-> [lit |-> "Array", elements |-> elements, inner_ty |-> <<>>],
     ty |-> <<>>]
LitB == [kind |-> "Lit", value |-> [lit |-> "Bool", v |-> <<1>>], ty |-> <<>>]
Id(name) == [kind |-> "Ident", name |-> name, ty |-> <<>>]
Let(name, antn, init) == [kind |-> "Let", name |-> name, antn |-> antn, init |-> init]
Block(list) == [kind |-> "Block", list |-> list, ty |-> <<>>]
For(name, antn, start, cond, step, body) ==
    [kind |-> "For", start_name |-> name, start_antn |-> antn, start_expr |-> start,
     cond_expr |-> cond, step_expr |-> step, body |-> body]
Fn(name, args, ret_ty, body) ==
    [kind |-> "Fn", proto |-> [name |-> name, args |-> args, ret_ty |-> ret_ty],
     body |-> body]
BinOp(op, lhs, rhs) == [kind |-> "BinOp", op |-> op, lhs |-> lhs, rhs |-> rhs, ty |-> <<>>]
Call(name, args) == [kind |-> "Call", name |-> name, args |-> args, ty |-> <<>>]
Cond(cond, then, else) ==
    [kind |-> "Cond", cond_expr |-> cond, then_block |-> then, else_block |-> else, ty |-> <<>>]
Index(binding, idx) == [kind |-> "Index", binding |-> binding, idx |-> idx, ty |-> <<>>]
FSelector(comp, field) == [kind |-> "FSelector", comp |-> comp, field |-> field, ty |-> <<>>]
Struct(name, fields, methods) ==
    [kind |-> "Struct", name |-> name, fields |-> fields, methods |-> methods]
UnOp(op, rhs) == [kind |-> "UnOp", op |-> op, rhs |-> rhs, ty |-> <<>>]
MSelector(comp, name, args) ==
    [kind |-> "MSelector", comp |-> comp, name |-> name, args |-> args, ty |-> <<>>]

\* the longest statement list of a nested block
MaxBlockLen == 2

SeqsUpTo(S, n) == UNION { [1..k -> S] : k \in 0..n }

VarNames == {"a", "b"}
AllNames == VarNames \cup {"foo", "main", "self"}

InnerStmts ==
    { Let("b", Bool, <<>>), Let("b", Int32, <<LitU(1)>>), Let("a", Bool, <<LitU(1)>>),
      Id("a"), Id("b") }

Fors ==
    UNION { { For(n, antn, <<LitU(1)>>, cond, step, Block(<<stmt>>)) :
                antn \in {Int32, Bool}, cond \in {LitB, LitU(1)},
                step \in {LitU(1), Id(n)}, stmt \in {Id(n), Let("b", Bool, <<>>)} } :
            n \in VarNames }

\* nothing, a nested block or a for loop
Nested ==
    { <<>> } \cup { <<Block(l)>> : l \in SeqsUpTo(InnerStmts, MaxBlockLen) }
             \cup { <<f>> : f \in Fors }

Declarations ==
    { <<>>, <<Let("a", Int32, <<LitU(1)>>)>>, <<Let("b", Int32, <<LitU(1)>>)>>,
      <<Let("b", Bool, <<LitB>>)>> }

LastExprs == { <<>>, <<LitU(1)>>, <<Id("a")>>, <<Id("b")>>, <<Id("foo")>> }

Bodies == { Block(d \o n \o e) : d \in Declarations, n \in Nested, e \in LastExprs }

RetTypes == {Void, Int32, Bool}

\* definitions whose prototype names a type that does not exist
UnknownTypeDefinitions ==
    { Fn(name, <<>>, Comp("Nope"), <<Block(<<>>)>>) : name \in {"foo", "main"} }
    \cup { Fn("foo", << <<"a", Comp("Nope")>> >>, ret, <<Block(<<>>)>>) : ret \in RetTypes }

Definitions ==
    { Fn("foo", << <<"a", Int32>> >>, ret, <<body>>) : ret \in RetTypes, body \in Bodies }
    \cup { Fn("main", <<>>, ret, <<body>>) : ret \in RetTypes, body \in Bodies }
    \cup UnknownTypeDefinitions

Externs ==
    { Fn(name, << <<"a", Int32>> >>, ret, <<>>) :
        name \in {"foo", "main"}, ret \in {Void, Int32, Comp("Nope")} }

Programs == { <<f>> : f \in Definitions \cup Externs }

\* the (name, type) pairs of the field declarations of a struct
StructFields(node) ==
    [i \in 1..Len(node.fields) |-> <<node.fields[i].name, TypeToString(node.fields[i].antn)>>]

\* the names methods are written with in the programs
MethodNames == {"c", "d"}

\* the name a method was written with, from the name of its function
SourceMethodName(struct_name, fn_name) ==
    CHOOSE m \in MethodNames : CookedMethodName(struct_name, m) = fn_name

\* what the methods list of a struct symbol holds: the mangled names of the
\* methods, or the names they were written with (the names visit_mselector
\* searches the list for)
MethodListings == {"mangled", "written"}

\* the methods list of the struct symbol
StructMethods(node, listing) ==
    [j \in 1..Len(node.methods) |->
        IF listing = "mangled" THEN node.methods[j].proto.name
        ELSE SourceMethodName(node.name, node.methods[j].proto.name)]

\* the parser's registration of the methods of a struct, under their mangled names
RECURSIVE MethodsFrame(_, _, _)
MethodsFrame(frame, methods, i) ==
    IF i > Len(methods) THEN frame
    ELSE MethodsFrame(FramePut(frame, methods[i].proto.name,
                               SymbolFromProto(methods[i].proto, FALSE)),
                      methods, i + 1)

\* the parser's registration of the top level functions and structs, at depth 0
RECURSIVE ParserFrame(_, _, _)
ParserFrame(nodes, i, listing) ==
    IF i > Len(nodes) THEN <<>>
    ELSE IF nodes[i].kind = "Fn"
    THEN FramePut(ParserFrame(nodes, i + 1, listing), nodes[i].proto.name,
                  SymbolFromProto(nodes[i].proto, nodes[i].body = <<>>))
    ELSE IF nodes[i].kind = "Struct"
    THEN FramePut(MethodsFrame(ParserFrame(nodes, i + 1, listing), nodes[i].methods, 1),
                  nodes[i].name,
                  SymbolNewStruct(nodes[i].name, <<StructFields(nodes[i])>>,
                      <<StructMethods(nodes[i], listing)>>))
    ELSE ParserFrame(nodes, i + 1, listing)

\* Tych::new
TychNew(table) ==
    [table |-> table, types |-> TypeRegistry(table), hint |-> <<>>,
     current_struct |-> <<>>]

(***************************************************************************)
(* Tych::walk: one top level node per step.                                *)
(***************************************************************************)
IdleLex ==
    /\ src = <<>> /\ lines = <<>> /\ tokens = <<>> /\ lexErr = <<>>
    /\ stream = [line |-> 0, column |-> 0, peeked |-> <<>>]
    /\ lexState = "idle"

TychInit ==
    /\ ast \in Programs
    /\ pos = 0
    /\ \E listing \in MethodListings : tych = TychNew(<<ParserFrame(ast, 1, listing)>>)
    /\ typed = <<>>
    /\ tychState = "walking"
    /\ visits = <<>>
    /\ IdleLex
    /\ IdleFn

\* node.accept(&mut self) for the next node of the tree
WalkResult ==
    Visit(ast[pos + 1], [table |-> tych.table, types |-> tych.types, hint |-> tych.hint,
                         current_struct |-> tych.current_struct, log |-> <<>>])

TychAfter(st) ==
    [table |-> st.table, types |-> st.types, hint |-> st.hint,
     current_struct |-> st.current_struct]

\* the node is typed and added to the typed tree
WalkNode ==
    /\ tychState = "walking"
    /\ pos < Len(ast)
    /\ LET r == WalkResult
       IN  /\ r.res = "ok"
           /\ typed' = Append(typed, r.node)
           /\ tych' = TychAfter(r.st)
           /\ visits' = r.st.log
    /\ pos' = pos + 1
    /\ UNCHANGED <<ast, tychState>>
    /\ UNCHANGED lexVars
    /\ UNCHANGED fnVars

\* the first error ends the walk
WalkError ==
    /\ tychState = "walking"
    /\ pos < Len(ast)
    /\ LET r == WalkResult
       IN  /\ r.res = "err"
           /\ tych' = TychAfter(r.st)
           /\ visits' = r.st.log
    /\ tychState' = "err"
    /\ UNCHANGED <<ast, pos, typed>>
    /\ UNCHANGED lexVars
    /\ UNCHANGED fnVars

\* an unreachable!() was reached
WalkPanic ==
    /\ tychState = "walking"
    /\ pos < Len(ast)
    /\ LET r == WalkResult
       IN  /\ r.res = "panic"
           /\ tych' = TychAfter(r.st)
           /\ visits' = r.st.log
    /\ tychState' = "panic"
    /\ UNCHANGED <<ast, pos, typed>>
    /\ UNCHANGED lexVars
    /\ UNCHANGED fnVars

\* every node is typed: walk returns the typed tree
WalkDone ==
    /\ tychState = "walking"
    /\ pos = Len(ast)
    /\ tychState' = "ok"
    /\ UNCHANGED <<ast, pos, tych, typed, visits>>
    /\ UNCHANGED lexVars
    /\ UNCHANGED fnVars

TychNext ==
    \/ WalkNode
    \/ WalkError
    \/ WalkPanic
    \/ WalkDone

TychSpec == TychInit /\ [][TychNext]_vars

(***************************************************************************)
(* The expressions given to the type checker: literals, arrays, operators, *)
(* calls, conditionals, loops and structs, each in a small program.        *)
(***************************************************************************)
FooStruct == Struct("Foo", <<Let("a", Int32, <<>>)>>, <<>>)

Main(stmts) == Fn("main", <<>>, Void, <<Block(stmts)>>)

\* the greatest value of every integer type, and the value after it
LiteralValues ==
    { U64(0), U64(127), U64(128), U64(255), U64(256), U64(32767), U64(32768), U64(65535),
      <<0, 0, 1, 0>>, <<0, 0, 32767, 65535>>, <<0, 0, 32768, 0>>, <<0, 0, 65535, 65535>>,
      <<0, 1, 0, 0>>, <<32767, 65535, 65535, 65535>>, <<32768, 0, 0, 0>>,
      <<65535, 65535, 65535, 65535>> }

NumLits == { LitW(v) : v \in LiteralValues } \cup {LitF}

HintTypes == { Prim(t) : t \in PrimitiveNames } \cup {SArray(Int32, 1), Comp("Foo")}

\* a literal with the annotation of a let as hint, and without a hint
LitPrograms ==
    { <<FooStruct, Main(<<Let("x", ty, <<lit>>)>>)>> : ty \in HintTypes, lit \in NumLits }
    \cup { <<FooStruct, Main(<<lit>>)>> : lit \in NumLits }

\* the greatest declared size of an array
MaxArraySize == 2

ArrayElements == { LitU(1), LitU(128), LitB }

ArrayTypes ==
    { SArray(ty, n) : ty \in {Int32, Bool, Prim("Int8")}, n \in 0..MaxArraySize }

\* array literals of up to one element more than the greatest size against
\* every array type, arrays of arrays, and array literals with a hint that is
\* no array and without a hint
ArrayPrograms ==
    { <<FooStruct, Main(<<Let("x", ty, <<LitArray(els)>>)>>)>> :
        ty \in ArrayTypes, els \in SeqsUpTo(ArrayElements, MaxArraySize + 1) }
    \cup { <<FooStruct, Main(<<Let("x", SArray(SArray(Int32, 1), 1), <<LitArray(els)>>)>>)>> :
             els \in SeqsUpTo({ LitArray(<<>>), LitArray(<<LitU(1)>>), LitArray(<<LitB>>),
                                LitArray(<<LitU(1), LitU(1)>>), LitU(1) }, 2) }
    \cup { <<FooStruct, Main(<<Let("x", Int32, <<LitArray(<<LitU(1)>>)>>)>>)>>,
           <<FooStruct, Main(<<LitArray(<<LitU(1)>>)>>)>>,
           <<FooStruct, Main(<<LitArray(<<>>)>>)>> }

Nope == Comp("Nope")

\* declarations whose annotation is an unknown composite, or an array of it
UnknownTypes == { Nope, SArray(Nope, 2), SArray(SArray(Nope, 1), 2) }

UnknownTypePrograms ==
    UNION { { <<FooStruct, Main(<<Let("x", ty, <<>>)>>)>>,
              <<FooStruct, Main(<<For("i", ty, <<>>, LitB, Id("i"), Block(<<>>))>>)>>,
              <<FooStruct, Fn("foo", << <<"a", ty>> >>, Void, <<Block(<<>>)>>), Main(<<>>)>>,
              <<FooStruct, Fn("foo", <<>>, ty, <<>>), Main(<<>>)>>,
              <<FooStruct, Fn("foo", << <<"a", ty>> >>, ty, <<Block(<<Id("a")>>)>>),
                Main(<<>>)>> } :
            ty \in UnknownTypes \cup {Comp("Foo"), SArray(Comp("Foo"), 2)} }

\* the declarations every expression below is checked after
EnvLets ==
    << Let("a", Int32, <<>>), Let("b", Bool, <<>>), Let("c", Char, <<>>),
       Let("f", Prim("Float"), <<>>), Let("l", Int64, <<>>),
       Let("arr", SArray(Int32, 2), <<>>), Let("s", Comp("Foo"), <<>>) >>

InEnv(expr) == <<FooStruct, Main(EnvLets \o <<expr>>)>>

Operands ==
    { Id("a"), Id("b"), Id("c"), Id("f"), Id("l"), Id("arr"), Id("s"), Id("nope"),
      LitU(1), LitF, LitB, LitC, Block(<<>>) }

BinOps == LogicOps \cup EqOps \cup CmpOps \cup ArithOps

BinopPrograms == { InEnv(BinOp(op, l, r)) : op \in BinOps, l \in Operands, r \in Operands }

AssignTargets ==
    { Id("a"), Id("b"), Index(Id("arr"), LitU(0)), FSelector(Id("s"), "a"),
      LitU(1), LitB, Block(<<>>), BinOp("Add", Id("a"), Id("a")), Call("foo", <<>>) }

AssignPrograms ==
    { InEnv(BinOp(op, l, r)) :
        op \in AssignOps, l \in AssignTargets, r \in {Id("a"), Id("b"), LitU(1), LitB} }

\* the functions called: definitions, and externs of unknown types
Callees ==
    UNION { { Fn("foo", ps, Void, <<Block(<<>>)>>), Fn("foo", ps, Int32, <<Block(<<LitU(1)>>)>>),
              Fn("foo", ps, Bool, <<>>) } :
            ps \in { <<>>, << <<"a", Int32>> >>, << <<"a", Prim("Int8")>> >>,
                     << <<"a", Int32>>, <<"b", Bool>> >>, << <<"a", Comp("Foo")>> >> } }
    \cup { Fn("foo", <<>>, Nope, <<>>), Fn("foo", << <<"a", Nope>> >>, Void, <<>>),
           Fn("foo", << <<"a", Int32>> >>, Comp("Foo"), <<>>) }

CallArgs == SeqsUpTo({ Id("a"), Id("b"), Id("s"), LitU(1), LitU(128) }, 2)

\* a call of foo, of an unknown name, of a variable and of a struct, with the
\* callee before and after the caller
CallPrograms ==
    UNION { { <<FooStruct, foo, Main(EnvLets \o <<Call("foo", args)>>)>>,
              <<FooStruct, Main(EnvLets \o <<Call("foo", args)>>), foo>> } :
            foo \in Callees, args \in CallArgs }
    \cup { InEnv(Call(name, args)) : name \in {"foo", "a", "Foo", "main"}, args \in CallArgs }

Branches == { <<>>, <<Id("a")>>, <<Id("b")>>, <<Id("l")>>, <<LitU(1)>>, <<Id("nope")>> }

CondPrograms ==
    { InEnv(Cond(c, Block(t), e)) :
        c \in {Id("b"), LitB, Id("a"), LitU(1), Id("nope")}, t \in Branches,
        e \in {<<>>} \cup { <<Block(b)>> : b \in Branches }
                     \cup { <<Cond(LitB, Block(<<Id("a")>>), <<>>)>> } }

ForPrograms ==
    { InEnv(For("i", antn, start, cond, step, Block(<<>>))) :
        antn \in {Int32, Int64, Prim("Int8"), Prim("Float"), Bool},
        start \in {<<>>, <<LitU(1)>>},
        cond \in {LitB, Id("b"), LitU(1), Id("a"), BinOp("Lt", Id("i"), LitU(3))},
        step \in {LitU(1), LitU(128), LitF, Id("i"), Id("a"), Id("l"), Id("f"), Id("b")} }

MethodBodies ==
    { <<>>, <<Let("x", Int32, <<>>)>>, <<Let("x", Int32, <<LitU(1)>>)>>,
      <<Let("x", Int32, <<>>), Id("x")>>, <<Let("x", Int32, <<LitU(1)>>), Id("x")>>,
      <<Let("x", Bool, <<LitU(1)>>)>>, <<Let("x", Nope, <<>>)>>, <<Id("self")>>,
      <<Let("x", Int32, <<>>), Block(<<Let("y", Int32, <<>>), Id("y")>>)>> }

\* a struct whose method, registered as _Foo_c, has the body, and a function
\* with the same body
StructPrograms ==
    UNION { { <<Struct("Foo", fields, <<Fn("_Foo_c", <<>>, Void, <<Block(body)>>)>>),
                Main(<<>>)>>,
              <<Struct("Foo", fields, <<>>), Main(body)>> } :
            fields \in { <<>>, <<Let("a", Int32, <<>>)>>, <<Let("a", Int32, <<LitU(1)>>)>>,
                         <<Let("a", Int32, <<>>), Let("b", Comp("Foo"), <<>>)>> },
            body \in MethodBodies }

\* a unary operator on every operand, alone and as the value of a let
UnopPrograms ==
    { InEnv(UnOp(op, rhs)) : op \in {"Sub", "Not"}, rhs \in Operands }
    \cup { <<FooStruct, Main(<<Let("y", ty, <<UnOp("Sub", rhs)>>)>>)>> :
             ty \in {Int32, Int64, Prim("Float")}, rhs \in {LitU(5), LitF, LitB} }

\* blocks of literals, declarations and loops, alone and as the value of a let
BlockChildren ==
    { <<>>, <<LitU(5)>>, <<LitF>>, <<BinOp("Add", LitU(10), LitU(2)), LitF, LitU(5)>>,
      <<LitU(5), Let("y", Int32, <<>>)>>,
      <<LitU(5), For("i", Int32, <<>>, LitB, LitU(1), Block(<<>>))>>,
      <<Block(<<LitU(5)>>)>>, <<Let("y", Int64, <<LitU(5)>>), Id("y")>> }

BlockPrograms ==
    { <<FooStruct, Main(<<Block(children)>>)>> : children \in BlockChildren }
    \cup { <<FooStruct, Main(<<Let("x", ty, <<Block(children)>>)>>)>> :
             ty \in {Int32, Int64, Prim("Float"), Void}, children \in BlockChildren }

\* a name that is a variable, a function, a struct and nothing, read as a variable
IdentPrograms ==
    { InEnv(Id(name)) : name \in {"a", "s", "main", "Foo", "nope"} }
    \cup { <<FooStruct, Fn("foo", <<>>, Int32, <<>>), Main(<<Let("x", Int32, <<Id(name)>>)>>)>> :
             name \in {"foo", "Foo", "main", "x"} }

\* struct Foo { let a: int32; fn c(d: int32) -> int32 { self.a + d }; fn d() {} }
FooWithMethods ==
    Struct("Foo", <<Let("a", Int32, <<>>)>>,
           << Fn("_Foo_c", << <<"d", Int32>> >>, Int32,
                 <<Block(<<BinOp("Add", FSelector(Id("self"), "a"), Id("d"))>>)>>),
              Fn("_Foo_d", <<>>, Void, <<Block(<<>>)>>) >>)

Receivers == { Id("x"), Id("a"), Id("nope"), LitU(1), Index(Id("xs"), LitU(0)) }

MethodArgs ==
    SeqsUpTo({ LitU(2), LitB, Id("a"), Id("x") }, 2) \cup { <<Id("x"), LitU(2), LitU(2)>> }

\* x.c(2) and its variations: the method called, the receiver and the arguments
MethodPrograms ==
    { <<FooWithMethods,
        Main(<<Let("x", Comp("Foo"), <<>>), Let("a", Int32, <<>>),
               Let("xs", SArray(Comp("Foo"), 1), <<>>), MSelector(comp, name, args)>>)>> :
        comp \in Receivers, name \in {"c", "d", "e", "_Foo_c"}, args \in MethodArgs }
    \cup { <<Main(<<Let("x", Comp("Foo"), <<>>), MSelector(Id("x"), "d", args)>>),
             Struct("Foo", <<>>, <<Fn("_Foo_d", <<>>, ret_ty, <<Block(<<>>)>>)>>)>> :
             ret_ty \in {Void, Nope}, args \in {<<>>, <<LitU(2)>>} }

\* declarations at the top level after a function whose last check leaves a hint
TopLevelPrograms ==
    { <<FooStruct, Main(<<Let("x", Int64, <<LitU(5)>>)>>), Let("g", ty, <<init>>)>> :
        ty \in {Int32, Int64},
        init \in { LitU(1), UnOp("Sub", LitU(1)), Block(<<LitU(1)>>),
                   BinOp("Add", LitU(1), LitU(2)) } }

ExprPrograms ==
    TopLevelPrograms \cup LitPrograms \cup ArrayPrograms \cup UnknownTypePrograms \cup BinopPrograms
    \cup AssignPrograms \cup CallPrograms \cup CondPrograms \cup ForPrograms
    \cup StructPrograms \cup UnopPrograms \cup BlockPrograms \cup IdentPrograms
    \cup MethodPrograms

ExprInit ==
    /\ ast \in ExprPrograms
    /\ pos = 0
    /\ \E listing \in MethodListings : tych = TychNew(<<ParserFrame(ast, 1, listing)>>)
    /\ typed = <<>>
    /\ tychState = "walking"
    /\ visits = <<>>
    /\ IdleLex
    /\ IdleFn

ExprSpec == ExprInit /\ [][TychNext]_vars

(***************************************************************************)
(* The type checker run again on the tree and the symbol table that a      *)
(* successful run left.                                                    *)
(***************************************************************************)
\* Tych::walk, as one step: an Ok result carries the typed tree
RECURSIVE WalkAll(_, _, _, _)
WalkAll(nodes, i, out, st) ==
    IF i > Len(nodes) THEN Ok(out, st)
    ELSE Try(Visit(nodes[i], st), LAMBDA r : WalkAll(nodes, i + 1, Append(out, r.node), r.st))

\* Tych::new(&mut symbol_table).walk(typed_ast)
RetychResult ==
    WalkAll(typed, 1, <<>>,
            [table |-> tych.table, types |-> TychNew(tych.table).types,
             hint |-> TychNew(tych.table).hint,
             current_struct |-> TychNew(tych.table).current_struct, log |-> <<>>])

\* the second run: ast is the tree it was given, typed the tree it returned
Retych ==
    /\ tychState = "ok"
    /\ ast' = typed
    /\ typed' = IF RetychResult.res = "ok" THEN RetychResult.node ELSE <<>>
    /\ tych' = TychAfter(RetychResult.st)
    /\ tychState' = "again_" \o RetychResult.res
    /\ visits' = RetychResult.st.log
    /\ UNCHANGED pos
    /\ UNCHANGED lexVars
    /\ UNCHANGED fnVars

RetychNext ==
    \/ WalkNode
    \/ WalkError
    \/ WalkPanic
    \/ WalkDone
    \/ Retych

RetychSpec == ExprInit /\ [][RetychNext]_vars

(***************************************************************************)
(* Properties of the type checker.  visits holds one record per visit of   *)
(* the last step of the walk: the node visited, the result, the typed node *)
(* and the symbol table before and after.                                  *)
(***************************************************************************)
VisitsOf(kinds) == { i \in 1..Len(visits) : visits[i].kind \in kinds }

\* the last let of the name among list[1..j-1], 0 when there is none
LastLetBefore(list, j, name) ==
    LET lets == { i \in 1..(j - 1) : list[i].kind = "Let" /\ list[i].name = name }
    IN  IF lets = {} THEN 0 ELSE CHOOSE i \in lets : \A k \in lets : k <= i

\* C6: a block or a for loop that the checker finishes successfully leaves
\* every name resolving to the symbol it resolved to before; inside a block an
\* identifier that follows a let of its name in the same block has the type of
\* the last such let, and in the body of a for loop the induction variable has
\* the loop's annotation, whatever the enclosing scopes declare.
C6_DeclarationsStayInside ==
    \A i \in VisitsOf({"Block", "For"}) :
        LET v == visits[i]
        IN  v.res = "ok" =>
            /\ \A name \in AllNames : Get(v.after, name) = Get(v.before, name)
            /\ v.kind = "Block" =>
                 \A j \in 1..Len(v.node.list) :
                    LET n == v.node.list[j]
                        l == IF n.kind = "Ident" THEN LastLetBefore(v.node.list, j, n.name) ELSE 0
                    IN  l > 0 => v.out[1].list[j].ty = <<v.node.list[l].antn>>
            /\ (v.kind = "For" /\ v.node.body.list[1] = Id(v.node.start_name)) =>
                 v.out[1].body.list[1].ty = <<v.node.start_antn>>

\* fn foo(a: int) -> int { let b: int = 1; { let b: bool }; b } is accepted;
\* the body has the type of the outer b
C6_Witness ==
    /\ tychState = "ok"
    /\ ast[1] = Fn("foo", << <<"a", Int32>> >>, Int32,
                   <<Block(<<Let("b", Int32, <<LitU(1)>>), Block(<<Let("b", Bool, <<>>)>>),
                             Id("b")>>)>>)
    /\ typed[1].body[1].ty = <<Int32>>

\* C7 as stated: after every visit of a for loop, a function or a block,
\* whether it succeeded or returned an error, scope_depth is what it was before.
C7_ScopeDepthRestoredOnEveryExit ==
    \A i \in VisitsOf({"For", "Fn", "Block"}) :
        visits[i].res \in {"ok", "err"} =>
            ScopeDepth(visits[i].after) = ScopeDepth(visits[i].before)

\* C7, amended: after every successful visit of a for loop, a function or a
\* block scope_depth is what it was before; a visit that returns an error
\* after its enter_scope does not call leave_scope, and leaves scope_depth
\* greater than before.
C7_ScopeDepthRestoredOnSuccess ==
    \A i \in VisitsOf({"For", "Fn", "Block"}) :
        LET v == visits[i]
            entered == \/ v.kind \in {"For", "Block"}
                       \/ /\ ResolveType(v.node.proto.ret_ty, TypeRegistry(v.before)) # <<>>
                          /\ v.node.body # <<>>
        IN  /\ v.res = "ok" => ScopeDepth(v.after) = ScopeDepth(v.before)
            /\ v.res = "err" =>
                 IF entered THEN ScopeDepth(v.after) > ScopeDepth(v.before)
                 ELSE ScopeDepth(v.after) = ScopeDepth(v.before)

\* a function with a for loop in a block was accepted
C7_Witness ==
    /\ tychState = "walking" /\ pos = 1
    /\ \E i \in VisitsOf({"For"}) : visits[i].res = "ok" /\ ScopeDepth(visits[i].before) = 2
    /\ ScopeDepth(tych.table) = 0

\* the visits of definitions (functions with a body) named main, or not
FnVisits(isMain) ==
    { i \in VisitsOf({"Fn"}) :
        /\ visits[i].node.body # <<>>
        /\ (visits[i].node.proto.name = "main") = isMain }

BodyTy(fn) == UnwrapOrDefault(NodeTy(fn.body[1]))

\* C8 as stated: a function named main is accepted only if its declared
\* return type is Void, and the prototype returned has ret_ty Void.
C8_MainAlwaysReturnsVoid ==
    \A i \in VisitsOf({"Fn"}) :
        (visits[i].node.proto.name = "main" /\ visits[i].res = "ok") =>
            /\ visits[i].node.proto.ret_ty = Void
            /\ visits[i].out[1].proto.ret_ty = Void

\* C8, amended: a function named main that has a body is accepted only if its
\* declared return type is Void, and the prototype returned has ret_ty Void
\* whatever the type of the body; a declaration of main without a body (an
\* extern) is accepted with any return type that resolves, and keeps it.
C8_MainReturnsVoid ==
    /\ \A i \in FnVisits(TRUE) :
          visits[i].res = "ok" =>
              /\ visits[i].node.proto.ret_ty = Void
              /\ visits[i].out[1].proto.ret_ty = Void
    /\ \A i \in VisitsOf({"Fn"}) :
          (visits[i].node.body = <<>> /\ visits[i].res # "panic") =>
              IF ResolveType(visits[i].node.proto.ret_ty, TypeRegistry(visits[i].before)) = <<>>
              THEN visits[i].res = "err"
              ELSE visits[i].res = "ok" /\ visits[i].out[1].proto = visits[i].node.proto

\* fn main() { 1 } is accepted: the body is an Int32, ret_ty is Void
C8_Witness ==
    /\ tychState = "ok"
    /\ ast[1].proto.name = "main"
    /\ BodyTy(typed[1]) = Int32
    /\ typed[1].proto.ret_ty = Void

\* C9: an accepted definition of a function other than main keeps its declared
\* return type, and unless that type is Void the type of its body is that type.
C9_BodyMatchesReturnType ==
    \A i \in FnVisits(FALSE) :
        visits[i].res = "ok" =>
            LET fn == visits[i].out[1]
            IN  /\ fn.proto.ret_ty = visits[i].node.proto.ret_ty
                /\ fn.proto.ret_ty # Void => BodyTy(fn) = fn.proto.ret_ty

\* fn foo(a: int) -> bool { let b: bool = true; b } is accepted
C9_Witness ==
    /\ tychState = "ok"
    /\ ast[1].proto.name = "foo"
    /\ typed[1].proto.ret_ty = Bool
    /\ BodyTy(typed[1]) = Bool

\* C10 as stated: an accepted definition of a function other than main whose
\* body has a type other than Void never has ret_ty Void.
C10_RetTyNeverVoid ==
    \A i \in FnVisits(FALSE) :
        (visits[i].res = "ok" /\ BodyTy(visits[i].out[1]) # Void) =>
            visits[i].out[1].proto.ret_ty # Void

\* C10, amended: an accepted definition of a function other than main whose
\* body has a type other than Void has ret_ty Void exactly when it was declared
\* without a return type (Void): then ret_ty stays Void whatever the body's type.
C10_RetTyVoidOnlyWhenDeclaredVoid ==
    \A i \in FnVisits(FALSE) :
        (visits[i].res = "ok" /\ BodyTy(visits[i].out[1]) # Void) =>
            (visits[i].out[1].proto.ret_ty = Void <=> visits[i].node.proto.ret_ty = Void)

\* fn foo(a: int) { 1 } is accepted with ret_ty Void and a body of type Int32
C10_Witness ==
    /\ tychState = "ok"
    /\ ast[1] = Fn("foo", << <<"a", Int32>> >>, Void, <<Block(<<LitU(1)>>)>>)
    /\ typed[1].proto.ret_ty = Void
    /\ BodyTy(typed[1]) = Int32

\* the number of value bits of the integer type named t: its width, less the
\* sign bit of a signed type
ValueBits(t) ==
    CASE t = "Int8" -> 7 [] t = "Int16" -> 15 [] t = "Int32" -> 31 [] t = "Int64" -> 63
      [] t = "UInt8" -> 8 [] t = "UInt16" -> 16 [] t = "UInt32" -> 32 [] t = "UInt64" -> 64

\* v < 2^bits, digit by digit
FitsBits(v, bits) ==
    \A i \in 1..4 :
        LET lo == 16 * (4 - i)
        IN  IF bits <= lo THEN v[i] = 0
            ELSE IF bits >= lo + 16 THEN TRUE
            ELSE v[i] < 2 ^ (bits - lo)

\* C11: an integer literal v (a UInt64 from the parser) gets the hinted integer
\* type, and is stored as that type, iff v fits its range, and is an out of
\* range error otherwise; a Float, Double, Bool or Char hint is an error; with
\* no hint it is an Int32 iff v <= 2147483647 and an error otherwise.  A float
\* literal is a Float with no hint and an error against an integer hint.
C11_LiteralTyping ==
    \A i \in VisitsOf({"Lit"}) :
        LET v == visits[i]
            lit == v.node.value
            TypedAs(t) == /\ v.res = "ok"
                          /\ v.out[1].ty = <<Prim(t)>>
                          /\ v.out[1].value.lit = t
        IN  /\ (lit.lit = "UInt64" /\ v.hint = <<>>) =>
                 IF FitsBits(lit.v, 31) THEN TypedAs("Int32") ELSE v.res = "err"
            /\ (lit.lit = "UInt64" /\ v.hint # <<>>) =>
                 /\ v.hint[1].t \in IntTypeNames =>
                      IF FitsBits(lit.v, ValueBits(v.hint[1].t))
                      THEN TypedAs(v.hint[1].t) ELSE v.res = "err"
                 /\ v.hint[1].t \in {"Float", "Double", "Bool", "Char"} => v.res = "err"
            /\ (lit.lit = "Float" /\ v.hint = <<>>) => TypedAs("Float")
            /\ (lit.lit = "Float" /\ v.hint # <<>>) =>
                 (v.hint[1].t \in IntTypeNames => v.res = "err")

\* 2147483647 without a hint is an Int32
C11_Witness ==
    \E i \in VisitsOf({"Lit"}) :
        /\ visits[i].node.value = [lit |-> "UInt64", v |-> <<0, 0, 32767, 65535>>]
        /\ visits[i].hint = <<>>
        /\ visits[i].res = "ok"
        /\ visits[i].out[1].ty = <<Int32>>

\* 2147483648 without a hint, and 128 against an Int8, are errors
C11_WitnessError ==
    /\ tychState = "err"
    /\ \E i \in VisitsOf({"Lit"}) :
          /\ visits[i].res = "err"
          /\ \/ visits[i].node.value.v = <<0, 0, 32768, 0>> /\ visits[i].hint = <<>>
             \/ visits[i].node.value.v = U64(128) /\ visits[i].hint = <<Prim("Int8")>>

\* the visits made directly within visit i, in the order they were made: the
\* last is the record before i, and each one before it ends where the next began
RECURSIVE ChildrenFrom(_, _)
ChildrenFrom(lo, c) ==
    IF c < lo THEN <<>> ELSE Append(ChildrenFrom(lo, visits[c].first - 1), c)

Children(i) == ChildrenFrom(visits[i].first, i - 1)

\* visit c returned a node of type ty
TypedOk(c, ty) ==
    visits[c].res = "ok" /\ UnwrapOrDefault(NodeTy(visits[c].out[1])) = ty

ArrayLitVisits ==
    { i \in VisitsOf({"Lit"}) :
        /\ visits[i].node.value.lit = "Array"
        /\ visits[i].hint # <<>>
        /\ visits[i].hint[1].t = "SArray" }

\* C12: an array literal checked against the hint SArray(T, n) is rejected when
\* it has more than n elements; otherwise its elements are checked in order,
\* each with hint T, up to the first that is not of type T, and the literal is
\* accepted iff every element was of type T; an accepted literal has the type
\* SArray(T, n) whatever the number of its elements.
C12_ArrayLiteral ==
    \A i \in ArrayLitVisits :
        LET els == visits[i].node.value.elements
            T == visits[i].hint[1].inner
            n == visits[i].hint[1].size
            ch == Children(i)
        IN  IF Len(els) > n THEN visits[i].res = "err" /\ ch = <<>>
            ELSE /\ Len(ch) <= Len(els)
                 /\ \A k \in 1..Len(ch) :
                       visits[ch[k]].node = els[k] /\ visits[ch[k]].hint = <<T>>
                 /\ visits[i].res = "ok" <=>
                       (Len(ch) = Len(els) /\ \A k \in 1..Len(ch) : TypedOk(ch[k], T))
                 /\ visits[i].res # "ok" => ~TypedOk(ch[Len(ch)], T)
                 /\ visits[i].res = "ok" =>
                       /\ visits[i].out[1].ty = <<SArray(T, n)>>
                       /\ visits[i].out[1].value.elements =
                              [k \in 1..Len(ch) |-> visits[ch[k]].out[1]]

\* let x: [int; 2] = [] is accepted with the type [int; 2]
C12_Witness ==
    /\ tychState = "ok"
    /\ \E i \in ArrayLitVisits :
          /\ visits[i].node.value.elements = <<>>
          /\ visits[i].res = "ok"
          /\ visits[i].out[1].ty = <<SArray(Int32, 2)>>

\* let x: [int; 2] = [1, 1, 1] is rejected
C12_WitnessTooBig ==
    /\ tychState = "err"
    /\ \E i \in ArrayLitVisits :
          /\ Len(visits[i].node.value.elements) = 3
          /\ visits[i].hint = <<SArray(Int32, 2)>>
          /\ visits[i].res = "err"

\* the type names a composite that is no registered type, itself or as the
\* element type of an array
RECURSIVE NamesUnknownType(_)
NamesUnknownType(ty) ==
    CASE ty.t = "SArray" -> NamesUnknownType(ty.inner)
      [] ty.t = "Comp" ->
            ty.name \notin tych.types /\ (ModuleName \o "::" \o ty.name) \notin tych.types
      [] OTHER -> FALSE

\* C13: a let, a for loop, a function definition with a parameter, and a
\* function with a return type, whose annotation is an unknown composite or an
\* array of an unknown composite, is rejected.
C13_UnknownElementTypeRejected ==
    /\ \A i \in VisitsOf({"Let"}) :
          NamesUnknownType(visits[i].node.antn) => visits[i].res = "err"
    /\ \A i \in VisitsOf({"For"}) :
          NamesUnknownType(visits[i].node.start_antn) => visits[i].res = "err"
    /\ \A i \in VisitsOf({"Fn"}) :
          LET proto == visits[i].node.proto
          IN  \/ NamesUnknownType(proto.ret_ty)
              \/ /\ visits[i].node.body # <<>>
                 /\ \E k \in 1..Len(proto.args) : NamesUnknownType(proto.args[k][2])
              => visits[i].res = "err"

\* the type of the node returned by visit c
OutTy(c) == UnwrapOrDefault(NodeTy(visits[c].out[1]))

\* both operands of the binary operation of visit i were checked and typed
OperandsTyped(i) ==
    /\ Len(Children(i)) = 2
    /\ \A k \in 1..2 : visits[Children(i)[k]].res = "ok"

IsNumeric(ty) == ty.t \in IntTypeNames \cup FloatTypeNames

\* C14: a binary operation that is no assignment is accepted only when both
\* operands are; with operands of types L and R it is rejected when L # R, and
\* otherwise && and || are accepted iff the type is Bool, == and != iff it is
\* numeric, Bool or Char, <, <=, > and >= iff it is numeric or Char, all with
\* result Bool, and + - * / ** & | ^ iff it is numeric, with the operands' type
\* as result.
C14_BinopTyping ==
    \A i \in VisitsOf({"BinOp"}) :
        LET op == visits[i].node.op
            L == OutTy(Children(i)[1])
            R == OutTy(Children(i)[2])
            AcceptedIff(cond, ty) ==
                IF cond THEN visits[i].res = "ok" /\ visits[i].out[1].ty = <<ty>>
                ELSE visits[i].res = "err"
        IN  op \notin AssignOps =>
              /\ visits[i].res = "ok" => OperandsTyped(i)
              /\ OperandsTyped(i) =>
                   IF L # R THEN visits[i].res = "err"
                   ELSE CASE op \in {"And", "Or"} -> AcceptedIff(L = Bool, Bool)
                          [] op \in {"Eq", "NotEq"} ->
                               AcceptedIff(IsNumeric(L) \/ L = Bool \/ L = Char, Bool)
                          [] op \in {"Lt", "LtEq", "Gt", "GtEq"} ->
                               AcceptedIff(IsNumeric(L) \/ L = Char, Bool)
                          [] op \in {"Add", "Sub", "Mul", "Div", "Pow",
                                     "BitAnd", "BitOr", "BitXor"} ->
                               AcceptedIff(IsNumeric(L), L)

\* l + 1 is accepted as an Int64, the literal retyped to the type of l
C14_Witness ==
    /\ tychState = "ok"
    /\ \E i \in VisitsOf({"BinOp"}) :
          /\ visits[i].node = BinOp("Add", Id("l"), LitU(1))
          /\ visits[i].res = "ok"
          /\ visits[i].out[1].ty = <<Int64>>

\* b < b is rejected, both operands being Bool
C14_WitnessRejected ==
    /\ tychState = "err"
    /\ \E i \in VisitsOf({"BinOp"}) :
          /\ visits[i].node = BinOp("Lt", Id("b"), Id("b"))
          /\ OperandsTyped(i)
          /\ visits[i].res = "err"

\* C15: an assignment, = or compound, is accepted only with an Ident, an Index
\* or an FSelector on its left hand side, and an accepted assignment has type
\* Void.
C15_AssignmentTarget ==
    \A i \in VisitsOf({"BinOp"}) :
        (visits[i].node.op \in AssignOps /\ visits[i].res = "ok") =>
            /\ visits[i].node.lhs.kind \in {"Ident", "Index", "FSelector"}
            /\ visits[i].out[1].ty = <<Void>>

\* the symbol the callee of call visit i resolves to, when it is a function
CalleeOf(i) ==
    LET entry == ResolveSymbol(visits[i].before, visits[i].node.name)
    IN  IF entry # <<>> /\ entry[1].data.d = "Fn" THEN entry ELSE <<>>

\* the arguments of call visit i were all checked, each with the declared type
\* of its parameter as hint, and each has the resolved type of its parameter
ArgumentsMatch(i, params) ==
    /\ Len(Children(i)) = Len(visits[i].node.args)
    /\ \A k \in 1..Len(params) :
          /\ visits[Children(i)[k]].node = visits[i].node.args[k]
          /\ visits[Children(i)[k]].hint = <<params[k][2]>>
          /\ ResolveType(params[k][2], tych.types) # <<>>
          /\ TypedOk(Children(i)[k], ResolveType(params[k][2], tych.types)[1])

\* C16: a call is accepted iff the callee's name resolves to a function symbol,
\* it has as many arguments as the function has parameters, and every argument,
\* checked with the declared type of its parameter as hint, has the resolved
\* type of the parameter; the type of an accepted call is the resolved return
\* type of the callee.
C16_CallAccepted ==
    \A i \in VisitsOf({"Call"}) :
        LET fn == CalleeOf(i)
        IN  /\ visits[i].res = "ok" <=>
                 /\ fn # <<>>
                 /\ Len(visits[i].node.args) = Len(fn[1].data.args)
                 /\ ArgumentsMatch(i, fn[1].data.args)
            /\ visits[i].res = "ok" =>
                 visits[i].out[1].ty = ResolveType(fn[1].data.ret_ty, tych.types)

\* the length of the longest frame of the table
MaxFrameLen(table) ==
    IF table = <<>> THEN 0
    ELSE CHOOSE n \in { Len(table[f]) : f \in 1..Len(table) } :
            \A f \in 1..Len(table) : Len(table[f]) <= n

\* the nodes directly under a node of the tree
SubNodes(node) ==
    CASE node.kind = "Lit" ->
            IF node.value.lit = "Array" THEN node.value.elements ELSE <<>>
      [] node.kind = "Ident" -> <<>>
      [] node.kind = "Let" -> node.init
      [] node.kind = "Block" -> node.list
      [] node.kind = "For" ->
            node.start_expr \o <<node.cond_expr, node.step_expr, node.body>>
      [] node.kind = "Fn" -> node.body
      [] node.kind \in {"BinOp"} -> <<node.lhs, node.rhs>>
      [] node.kind = "UnOp" -> <<node.rhs>>
      [] node.kind = "Call" -> node.args
      [] node.kind = "Cond" -> <<node.cond_expr, node.then_block>> \o node.else_block
      [] node.kind = "Index" -> <<node.binding, node.idx>>
      [] node.kind = "FSelector" -> <<node.comp>>
      [] node.kind = "MSelector" -> <<node.comp>> \o node.args
      [] node.kind = "Struct" -> node.fields \o node.methods

\* the names of the Call nodes of a tree
RECURSIVE CallNamesIn(_)
CallNamesIn(node) ==
    (IF node.kind = "Call" THEN {node.name} ELSE {})
    \cup UNION { CallNamesIn(SubNodes(node)[k]) : k \in 1..Len(SubNodes(node)) }

\* the fq_name of every function symbol of the table
FqNamesOf(table) ==
    { table[f][e].sym.data.fq_name :
        <<f, e>> \in { p \in (1..Len(table)) \X (1..MaxFrameLen(table)) :
                         /\ p[2] <= Len(table[p[1]])
                         /\ table[p[1]][p[2]].sym.data.d = "Fn" } }

ChildrenOk(i) == \A k \in 1..Len(Children(i)) : visits[Children(i)[k]].res = "ok"

\* C18: a conditional whose condition, then branch and else branch, if any, are
\* themselves accepted is accepted iff the condition is a Bool and the else
\* branch, if any, has the type of the then branch; the branches of a
\* conditional whose condition is no Bool are not checked; the type of an
\* accepted conditional is the type of its then branch.
C18_Conditional ==
    \A i \in VisitsOf({"Cond"}) :
        LET ch == Children(i)
            branches == IF visits[i].node.else_block = <<>> THEN 1 ELSE 2
        IN  /\ visits[i].res = "ok" =>
                 /\ Len(ch) = 1 + branches /\ ChildrenOk(i)
                 /\ visits[i].out[1].ty = <<OutTy(ch[2])>>
            /\ (Len(ch) >= 1 /\ visits[ch[1]].res = "ok" /\ OutTy(ch[1]) # Bool) =>
                 visits[i].res = "err" /\ Len(ch) = 1
            /\ (Len(ch) >= 2 /\ ChildrenOk(i)) =>
                 /\ OutTy(ch[1]) = Bool
                 /\ visits[ch[2]].node = visits[i].node.then_block
                 /\ Len(ch) = 1 + branches
                 /\ visits[i].res = "ok" <=> (branches = 2 => OutTy(ch[3]) = OutTy(ch[2]))
                 /\ visits[i].res # "ok" => visits[i].res = "err"

\* if b { a } else { 1 } is accepted as an Int32
C18_Witness ==
    /\ tychState = "ok"
    /\ \E i \in VisitsOf({"Cond"}) :
          /\ visits[i].node = Cond(Id("b"), Block(<<Id("a")>>), <<Block(<<LitU(1)>>)>>)
          /\ visits[i].res = "ok"
          /\ visits[i].out[1].ty = <<Int32>>

\* if b { a } else { b } is rejected
C18_WitnessRejected ==
    /\ tychState = "err"
    /\ \E i \in VisitsOf({"Cond"}) :
          /\ visits[i].node = Cond(Id("b"), Block(<<Id("a")>>), <<Block(<<Id("b")>>)>>)
          /\ ChildrenOk(i)
          /\ visits[i].res = "err"

\* the visits of the condition and of the step of the for loop of visit i, 0
\* when the loop failed before
CondVisit(i) ==
    LET k == Len(visits[i].node.start_expr) + 1
    IN  IF Len(Children(i)) >= k THEN Children(i)[k] ELSE 0

StepVisit(i) ==
    LET k == Len(visits[i].node.start_expr) + 2
    IN  IF Len(Children(i)) >= k THEN Children(i)[k] ELSE 0

\* C19: a for loop is accepted only if its condition is a Bool and its step,
\* checked with the annotation of the induction variable as hint, has the
\* resolved type of the induction variable; a loop whose condition is typed
\* and no Bool, or whose step is typed otherwise than the induction variable,
\* is rejected; an integer literal as step gets the type of an integer
\* induction variable.
C19_ForLoop ==
    \A i \in VisitsOf({"For"}) :
        LET node == visits[i].node
            antn == ResolveType(node.start_antn, tych.types)
            c == CondVisit(i)
            s == StepVisit(i)
        IN  /\ visits[i].res = "ok" =>
                 /\ c # 0 /\ visits[c].node = node.cond_expr /\ TypedOk(c, Bool)
                 /\ s # 0 /\ visits[s].node = node.step_expr
                 /\ visits[s].hint = antn
                 /\ TypedOk(s, antn[1])
            /\ (c # 0 /\ visits[c].res = "ok" /\ OutTy(c) # Bool) => visits[i].res = "err"
            /\ (s # 0 /\ visits[s].res = "ok" /\ OutTy(s) # antn[1]) => visits[i].res = "err"
            /\ (s # 0 /\ visits[s].res = "ok" /\ node.step_expr.kind = "Lit"
                  /\ node.step_expr.value.lit = "UInt64") =>
                 OutTy(s) = antn[1] /\ antn[1].t \in IntTypeNames

\* for i: int64 = 1; i < 3; 1 {} is accepted, the step an Int64
C19_Witness ==
    /\ tychState = "ok"
    /\ \E i \in VisitsOf({"For"}) :
          /\ visits[i].node.start_antn = Int64
          /\ visits[i].node.step_expr = LitU(1)
          /\ visits[i].res = "ok"
          /\ OutTy(StepVisit(i)) = Int64

\* for i: int64 = 1; true; a {} with a: int is rejected: the step is an Int32
C19_WitnessRejected ==
    /\ tychState = "err"
    /\ \E i \in VisitsOf({"For"}) :
          /\ visits[i].node.start_antn = Int64
          /\ visits[i].node.step_expr = Id("a")
          /\ StepVisit(i) # 0
          /\ TypedOk(StepVisit(i), Int32)
          /\ visits[i].res = "err"

\* the visit that visit i was made directly within, 0 for the visit of a node
\* of the top level
ParentOf(i) ==
    LET above == { j \in (i + 1)..Len(visits) : visits[j].first <= i }
    IN  IF above = {} THEN 0 ELSE CHOOSE j \in above : \A k \in above : j <= k

\* the let of visit i is a field declaration of a struct
IsFieldDeclaration(i) == ParentOf(i) # 0 /\ visits[ParentOf(i)].kind = "Struct"

\* the visits of the lets whose annotation resolves and whose visit is whole
\* in the history
LetVisits ==
    { i \in VisitsOf({"Let"}) :
        /\ ResolveType(visits[i].node.antn, tych.types) # <<>>
        /\ ParentOf(i) # 0 }

\* C20: a let in a function body, the body of a method of a struct included,
\* binds its name to Var(T) in the current scope, and is accepted iff it has no
\* initializer or its initializer, checked with hint T, has type T; a let that
\* is a field declaration of a struct binds nothing and is accepted iff it has
\* no initializer.
C20_LetInFunctionBody ==
    \A i \in LetVisits :
        LET node == visits[i].node
            T == ResolveType(node.antn, tych.types)[1]
            ch == Children(i)
        IN  IF IsFieldDeclaration(i)
            THEN /\ visits[i].res = "ok" <=> node.init = <<>>
                 /\ visits[i].after = visits[i].before
            ELSE /\ Get(visits[i].after, node.name) = <<SymbolNewVar(node.name, T)>>
                 /\ Len(ch) = Len(node.init)
                 /\ \A k \in 1..Len(ch) : visits[ch[k]].hint = <<T>>
                 /\ visits[i].res = "ok" <=> \A k \in 1..Len(ch) : TypedOk(ch[k], T)

\* every node of a tree
RECURSIVE NodesIn(_)
NodesIn(node) ==
    {node} \cup UNION { NodesIn(SubNodes(node)[k]) : k \in 1..Len(SubNodes(node)) }

\* the nodes of the typed tree
TypedNodes == UNION { NodesIn(typed[k]) : k \in 1..Len(typed) }

\* the kinds of node the type checker builds with a type, and without one
ExpressionKinds ==
    {"Lit", "Ident", "BinOp", "UnOp", "Call", "Cond", "Block", "Index", "FSelector",
     "MSelector"}
StatementKinds == {"Let", "For", "Fn", "Struct"}

ReceiverStruct(i) ==
    LET ch == Children(i)
    IN  IF ch = <<>> \/ visits[ch[1]].res # "ok" \/ OutTy(ch[1]).t # "Comp" THEN <<>>
        ELSE LET sym == ResolveSymbol(visits[i].before, OutTy(ch[1]).name)
             IN  IF sym # <<>> /\ sym[1].data.d = "Struct" THEN sym ELSE <<>>

\* the method selectors whose receiver is of a struct type
MethodVisits == { i \in VisitsOf({"MSelector"}) : ReceiverStruct(i) # <<>> }

\* the method name of visit i is in the methods list of the struct, as written
MethodListed(i) ==
    \E k \in 1..Len(SymMethods(ReceiverStruct(i)[1])) :
        SymMethods(ReceiverStruct(i)[1])[k] = visits[i].node.name

\* the function symbol of _S_m for method selector visit i, none when the
\* name does not resolve to a function
MethodOf(i) ==
    LET entry == ResolveSymbol(visits[i].before,
                               CookedMethodName(ReceiverStruct(i)[1].name, visits[i].node.name))
    IN  IF entry # <<>> /\ entry[1].data.d = "Fn" THEN entry ELSE <<>>

\* the arguments of method selector visit i were checked after the receiver,
\* each with the declared type of its parameter as hint, and each has the
\* resolved type of its parameter
MethodArgumentsMatch(i, params) ==
    /\ Len(Children(i)) = 1 + Len(params)
    /\ \A k \in 1..Len(params) :
          /\ visits[Children(i)[k + 1]].node = visits[i].node.args[k]
          /\ visits[Children(i)[k + 1]].hint = <<params[k][2]>>
          /\ ResolveType(params[k][2], tych.types) # <<>>
          /\ TypedOk(Children(i)[k + 1], ResolveType(params[k][2], tych.types)[1])

\* C23 as stated: an accepted method selector x.m(args) is a call of _S_m
\* whose argument list is the receiver followed by args, as long as the
\* parameter list of _S_m.
C23_ReceiverPrepended ==
    \A i \in MethodVisits :
        visits[i].res = "ok" =>
            /\ MethodOf(i) # <<>>
            /\ Len(visits[i].out[1].args) = 1 + Len(visits[i].node.args)
            /\ visits[i].out[1].args[1] = visits[i].out[1].comp
            /\ Len(MethodOf(i)[1].data.args) = Len(visits[i].out[1].args)

\* C23: a method selector x.m(args) on a receiver of type Comp(S), the
\* receiver checked with no hint, is accepted iff m as written is in the
\* methods list of the struct symbol of S, _S_m resolves to a function with as
\* many parameters as there are args and a return type that resolves, and
\* every one of args, checked with the declared type of its parameter as hint,
\* has the type of its parameter: the receiver is no part of the list that is
\* checked.  The accepted selector
\* keeps the checked receiver and the checked args and takes the fq_name and
\* the return type of _S_m; when m is not listed no argument is checked.
C23_MethodSelector ==
    \A i \in MethodVisits :
        LET fn == MethodOf(i)
            node == visits[i].node
            ch == Children(i)
        IN  /\ visits[ch[1]].node = node.comp /\ visits[ch[1]].hint = <<>>
            /\ visits[i].res = "ok" <=>
                 /\ MethodListed(i)
                 /\ fn # <<>>
                 /\ Len(node.args) = Len(fn[1].data.args)
                 /\ ResolveType(fn[1].data.ret_ty, tych.types) # <<>>
                 /\ MethodArgumentsMatch(i, fn[1].data.args)
            /\ ~MethodListed(i) => visits[i].res = "err" /\ Len(ch) = 1
            /\ visits[i].res = "ok" =>
                 visits[i].out[1] =
                     [kind |-> "MSelector", comp |-> visits[ch[1]].out[1],
                      name |-> fn[1].data.fq_name,
                      args |-> [k \in 1..Len(node.args) |-> visits[ch[k + 1]].out[1]],
                      ty |-> ResolveType(fn[1].data.ret_ty, tych.types)]

\* x.c(2) is accepted, c taking one int32 besides self
C23_Witness ==
    /\ tychState = "ok"
    /\ \E i \in MethodVisits :
          /\ visits[i].node = MSelector(Id("x"), "c", <<LitU(2)>>)
          /\ visits[i].res = "ok"
          /\ Len(visits[i].out[1].args) = 1
          /\ NodeTy(visits[i].out[1].args[1]) = <<Int32>>
          /\ visits[i].out[1].ty = <<Int32>>

\* x.c(true) is rejected for the type of its argument, x.e() for its name
C23_WitnessRejected ==
    /\ tychState = "err"
    /\ \E i \in MethodVisits :
          /\ visits[i].node.name = "c" /\ visits[i].node.args = <<LitB>>
          /\ MethodListed(i)
          /\ visits[i].res = "err"

\* the type checker was run on its own output
RanAgain == tychState \in {"again_ok", "again_err", "again_panic"}

\* C22: the type checker run on the output of a successful type-check, with
\* the symbol table that run left, succeeds and returns the tree it was given.
C22_Idempotent ==
    RanAgain => (tychState = "again_ok" /\ typed = ast)

\* C27: every child of a block is checked with no hint, whatever hint the
\* block was checked with; the type of an accepted block is the type of its
\* last child, Void when the block is empty or its last child carries no type
\* (a let, a for); a bare integer literal ending a block is typed Int32.
C27_BlockType ==
    \A i \in VisitsOf({"Block"}) :
        LET ch == Children(i)
            list == visits[i].node.list
        IN  /\ \A k \in 1..Len(ch) :
                  visits[ch[k]].node = list[k] /\ visits[ch[k]].hint = <<>>
            /\ visits[i].res = "ok" =>
                  /\ Len(ch) = Len(list)
                  /\ visits[i].out[1].ty =
                        IF list = <<>> THEN <<Void>>
                        ELSE IF NodeTy(visits[ch[Len(ch)]].out[1]) = <<>> THEN <<Void>>
                        ELSE NodeTy(visits[ch[Len(ch)]].out[1])
                  /\ (list # <<>> /\ Last(list).kind \in {"Let", "For"}) =>
                        visits[i].out[1].ty = <<Void>>
                  /\ (list # <<>> /\ Last(list).kind = "Lit"
                       /\ Last(list).value.lit = "UInt64") =>
                        visits[i].out[1].ty = <<Int32>>

\* { 10 + 2; 1.0; 5 } has type Int32
C27_Witness ==
    \E i \in VisitsOf({"Block"}) :
        /\ visits[i].node = Block(<<BinOp("Add", LitU(10), LitU(2)), LitF, LitU(5)>>)
        /\ visits[i].res = "ok"
        /\ visits[i].out[1].ty = <<Int32>>

\* let x: int64 = { 5 }: the block is checked with hint Int64, its literal with none
C27_WitnessHinted ==
    \E i \in VisitsOf({"Block"}) :
        /\ visits[i].node = Block(<<LitU(5)>>)
        /\ visits[i].hint = <<Int64>>
        /\ visits[i].res = "ok"
        /\ visits[i].out[1].ty = <<Int32>>

\* C28: visit_lit returns a typed literal or an error for every literal and
\* every hint; it never aborts.
C28_LiteralNeverAborts ==
    \A i \in VisitsOf({"Lit"}) : visits[i].res \in {"ok", "err"}

\* the hint the visit p passes to check_node for its k-th check, as the
\* visitor of its kind is written
ExpectedHint(p, k) ==
    LET node == visits[p].node
        ch == Children(p)
        annotated(antn) == <<ResolveType(antn, tych.types)[1]>>
    IN  CASE node.kind = "Let" -> annotated(node.antn)
          [] node.kind = "For" ->
                IF k = Len(node.start_expr) + 1 \/ k = Len(node.start_expr) + 3 THEN <<>>
                ELSE annotated(node.start_antn)
          [] node.kind = "BinOp" -> IF k = 1 THEN <<>> ELSE <<OutTy(ch[1])>>
          [] node.kind = "Call" ->
                <<ResolveSymbol(visits[p].before, node.name)[1].data.args[k][2]>>
          [] node.kind = "MSelector" ->
                IF k = 1 THEN <<>> ELSE <<MethodOf(p)[1].data.args[k - 1][2]>>
          [] node.kind = "Cond" -> IF k = 3 THEN <<OutTy(ch[2])>> ELSE <<>>
          [] node.kind = "Index" -> IF k = 2 THEN <<Int32>> ELSE <<>>
          [] node.kind = "Lit" -> <<visits[p].hint[1].inner>>
          [] OTHER -> <<>>

\* C29: every literal is typed with exactly the hint its immediate parent
\* passed to check_node for it, and so is every other node: no visit sees the
\* hint set for a sibling, for a node above its parent or for an earlier top
\* level node; the operand of a unary operator and the children of a block
\* are checked with no hint.
C29_HintDiscipline ==
    \A p \in 1..Len(visits) :
        /\ \A k \in 1..Len(Children(p)) :
              visits[Children(p)[k]].hint = ExpectedHint(p, k)
        /\ visits[p].kind = "Lit" => ParentOf(p) # 0

\* let y: int64 = -5: the literal is checked with no hint and typed Int32
C29_Witness ==
    \E p \in VisitsOf({"UnOp"}) :
        /\ visits[p].node = UnOp("Sub", LitU(5))
        /\ visits[p].hint = <<Int64>>
        /\ Len(Children(p)) = 1
        /\ visits[Children(p)[1]].hint = <<>>
        /\ OutTy(Children(p)[1]) = Int32

\* let g: int32 = { 1 } at the top level, visited while the hint of the last
\* check of the function before it, Int64, is still set: the literal of the
\* block is checked with no hint
C29_WitnessTopLevel ==
    /\ visits # <<>>
    /\ visits[Len(visits)].node = Let("g", Int32, <<Block(<<LitU(1)>>)>>)
    /\ visits[Len(visits)].hint = <<Int64>>
    /\ visits[Len(visits)].res = "ok"
    /\ \E c \in VisitsOf({"Lit"}) : visits[c].hint = <<>> /\ OutTy(c) = Int32

\* C30: an identifier whose name resolves to a function or a struct, and a
\* call whose name resolves to a variable or a struct, are rejected with an
\* error; the type checker does not abort.
C30_WrongRoleIsAnError ==
    /\ \A i \in VisitsOf({"Ident"}) :
          LET sym == Get(visits[i].before, visits[i].node.name)
          IN  (sym # <<>> /\ sym[1].data.d \in {"Fn", "Struct"}) => visits[i].res = "err"
    /\ \A i \in VisitsOf({"Call"}) :
          LET sym == ResolveSymbol(visits[i].before, visits[i].node.name)
          IN  (sym # <<>> /\ sym[1].data.d \in {"Var", "Struct"}) => visits[i].res = "err"

(***************************************************************************)
(* Functions called on their own.  Their strings are sequences of          *)
(* characters, so that a change of letter case is computed.                *)
(***************************************************************************)
Uppers == <<"A", "B", "C", "D", "E", "F", "G", "H", "I", "J", "K", "L", "M", "N", "O", "P", "Q", "R", "S", "T", "U", "V", "W", "X", "Y", "Z">>
Lowers == <<"a", "b", "c", "d", "e", "f", "g", "h", "i", "j", "k", "l", "m", "n", "o", "p", "q", "r", "s", "t", "u", "v", "w", "x", "y", "z">>

\* u8::to_ascii_lowercase, to_ascii_uppercase
LowerChar(c) ==
    IF \E i \in 1..Len(Uppers) : Uppers[i] = c
    THEN Lowers[CHOOSE i \in 1..Len(Uppers) : Uppers[i] = c] ELSE c
UpperChar(c) ==
    IF \E i \in 1..Len(Lowers) : Lowers[i] = c
    THEN Uppers[CHOOSE i \in 1..Len(Lowers) : Lowers[i] = c] ELSE c

\* str::to_ascii_lowercase, to_ascii_uppercase
ToAsciiLowercase(str) == [i \in 1..Len(str) |-> LowerChar(str[i])]
ToAsciiUppercase(str) == [i \in 1..Len(str) |-> UpperChar(str[i])]

\* the string made lower case before it is kept
CompOfLowercased(x) == Comp(ToAsciiLowercase(x))

\* Type::resolve_primitive, its last arm: x => Comp(x.to_owned())
CompOf(x) == Comp(x)

\* Type::resolve_primitive
ResolvePrimitive(ty) ==
      CASE ty = <<"i", "n", "t", "8">> -> Prim("Int8")
        [] ty = <<"i", "n", "t", "1", "6">> -> Prim("Int16")
        [] ty = <<"i", "n", "t", "3", "2">> -> Prim("Int32")
        [] ty = <<"i", "n", "t", "6", "4">> -> Prim("Int64")
        [] ty = <<"u", "i", "n", "t", "8">> -> Prim("UInt8")
        [] ty = <<"u", "i", "n", "t", "1", "6">> -> Prim("UInt16")
        [] ty = <<"u", "i", "n", "t", "3", "2">> -> Prim("UInt32")
        [] ty = <<"u", "i", "n", "t", "6", "4">> -> Prim("UInt64")
        [] ty = <<"f", "l", "o", "a", "t">> -> Prim("Float")
        [] ty = <<"d", "o", "u", "b", "l", "e">> -> Prim("Double")
        [] ty = <<"b", "o", "o", "l">> -> Prim("Bool")
        [] ty = <<"c", "h", "a", "r">> -> Prim("Char")
        [] ty = <<"v", "o", "i", "d">> -> Prim("Void")
        [] ty = <<"i", "n", "t">> -> Prim("Int32")
        [] ty = <<"u", "i", "n", "t">> -> Prim("UInt32")
        [] OTHER -> CompOf(ty)

\* the name derive(Debug) prints for a variant without fields
VariantNames ==
    << <<"Int8", <<"I", "n", "t", "8">>>>,
       <<"Int16", <<"I", "n", "t", "1", "6">>>>,
       <<"Int32", <<"I", "n", "t", "3", "2">>>>,
       <<"Int64", <<"I", "n", "t", "6", "4">>>>,
       <<"UInt8", <<"U", "I", "n", "t", "8">>>>,
       <<"UInt16", <<"U", "I", "n", "t", "1", "6">>>>,
       <<"UInt32", <<"U", "I", "n", "t", "3", "2">>>>,
       <<"UInt64", <<"U", "I", "n", "t", "6", "4">>>>,
       <<"Float", <<"F", "l", "o", "a", "t">>>>,
       <<"Double", <<"D", "o", "u", "b", "l", "e">>>>,
       <<"Bool", <<"B", "o", "o", "l">>>>,
       <<"Char", <<"C", "h", "a", "r">>>>,
       <<"Void", <<"V", "o", "i", "d">>>> >>

VariantName(t) ==
    VariantNames[CHOOSE k \in 1..Len(VariantNames) : VariantNames[k][1] = t][2]

DecimalDigits == <<"0", "1", "2", "3", "4", "5", "6", "7", "8", "9">>

\* usize as Debug
RECURSIVE UsizeDebug(_)
UsizeDebug(n) ==
    IF n < 10 THEN <<DecimalDigits[n + 1]>> ELSE UsizeDebug(n \div 10) \o <<DecimalDigits[(n % 10) + 1]>>

\* Type as derive(Debug): the name of the variant, with its fields in brackets
RECURSIVE TypeDebug(_)
TypeDebug(ty) ==
    IF ty.t = "Comp" THEN <<"C", "o", "m", "p", "(", "\"">> \o ty.name \o <<"\"", ")">>
    ELSE IF ty.t = "Array"
    THEN <<"A", "r", "r", "a", "y", "(">> \o TypeDebug(ty.inner) \o <<",", " ">> \o UsizeDebug(ty.size)
         \o <<")">>
    ELSE VariantName(ty.t)

\* Type as Display: the Debug text in lower case
TypeDisplay(ty) == ToAsciiLowercase(TypeDebug(ty))

\* the argument without the ~ that ends it
ProtoArgStrUnterminated(name, ty) == name \o <<":">> \o TypeDisplay(ty)

\* Prototype::to_symbol: format!("{}:{}~", name, ty)
ProtoArgStr(name, ty) == name \o <<":">> \o TypeDisplay(ty) \o <<"~">>

\* Prototype::to_symbol: the fold over the arguments
RECURSIVE ProtoArgsStr(_, _, _)
ProtoArgsStr(args, i, acc) ==
    IF i > Len(args) THEN acc
    ELSE ProtoArgsStr(args, i + 1, acc \o ProtoArgStr(args[i][1], args[i][2]))

\* Prototype::to_symbol: the text of the return type
ProtoRetTyStr(ret_ty) ==
    ToAsciiLowercase(TypeDisplay(IF ret_ty = <<>> THEN Void ELSE ret_ty[1]))

\* Symbol::new_fn(name, args, ret_ty)
NewFn(name, args, ret_ty) ==
    [name |-> name, data |-> [d |-> "Fn", args |-> args, ret_ty |-> ret_ty]]

\* Prototype::to_symbol
ToSymbol(proto) ==
    NewFn(proto.name \o <<"~">> \o ProtoArgsStr(proto.args, 1, <<>>)
              \o ProtoRetTyStr(proto.ret_ty),
          proto.args, UnwrapOrDefault(proto.ret_ty))

\* the fifteen names resolve_primitive knows
PrimitiveTypeNames ==
    { <<"i", "n", "t", "8">>,
      <<"i", "n", "t", "1", "6">>,
      <<"i", "n", "t", "3", "2">>,
      <<"i", "n", "t", "6", "4">>,
      <<"u", "i", "n", "t", "8">>,
      <<"u", "i", "n", "t", "1", "6">>,
      <<"u", "i", "n", "t", "3", "2">>,
      <<"u", "i", "n", "t", "6", "4">>,
      <<"f", "l", "o", "a", "t">>,
      <<"d", "o", "u", "b", "l", "e">>,
      <<"b", "o", "o", "l">>,
      <<"c", "h", "a", "r">>,
      <<"v", "o", "i", "d">>,
      <<"i", "n", "t">>,
      <<"u", "i", "n", "t">> }

Capitalised(str) == IF str = <<>> THEN str ELSE <<UpperChar(str[1])>> \o Tail(str)

\* the strings given to resolve_primitive: the names, the names in other letter
\* cases, with a character more and a character less, and names of structs
TypeStrings ==
    PrimitiveTypeNames
    \cup { ToAsciiUppercase(n) : n \in PrimitiveTypeNames }
    \cup { Capitalised(n) : n \in PrimitiveTypeNames }
    \cup { n \o <<" ">> : n \in PrimitiveTypeNames }
    \cup { Tail(n) : n \in PrimitiveTypeNames }
    \cup { <<>>, <<"F", "o", "o">>, <<"f", "o", "o">>, <<"i", "3", "2">>, <<"s", "t", "r", "i", "n", "g">> }

ArrayOf(inner, size) == [t |-> "Array", inner |-> inner, size |-> size]

ProtoNames == { <<"f", "o", "o">>, <<"F", "o", "o">>, <<"_", "F", "o", "o", "_", "c">> }
ProtoArgNames == { <<"b", "a", "r">>, <<"b", "a", "z">>, <<"B">> }
ProtoTypes ==
    { Int32, Float, Prim("UInt8"), Void, Comp(<<"F", "o", "o">>), ArrayOf(Int32, 3),
      ArrayOf(Comp(<<"F", "o", "o">>), 12) }

\* the greatest number of arguments of a prototype
MaxProtoArgs == 2

\* the prototypes given to to_symbol
Prototypes ==
    { [name |-> n, args |-> a, ret_ty |-> r] :
        n \in ProtoNames,
        a \in SeqsUpTo({ <<an, ty>> : an \in ProtoArgNames, ty \in {Int32, Float, Comp(<<"F", "o", "o">>)} },
                       MaxProtoArgs)
             \cup { << <<an, ty>> >> : an \in ProtoArgNames, ty \in ProtoTypes },
        r \in {<<>>} \cup { <<ty>> : ty \in ProtoTypes } }

FnInit ==
    /\ \/ \E str \in TypeStrings : fnCall = [fn |-> "resolve_primitive", arg |-> str]
       \/ \E proto \in Prototypes : fnCall = [fn |-> "to_symbol", arg |-> proto]
    /\ fnResult = <<>>
    /\ IdleLex
    /\ IdleTych

\* Type::resolve_primitive(ty)
CallResolvePrimitive ==
    /\ fnCall # <<>> /\ fnCall.fn = "resolve_primitive" /\ fnResult = <<>>
    /\ fnResult' = <<ResolvePrimitive(fnCall.arg)>>
    /\ UNCHANGED fnCall
    /\ UNCHANGED lexVars
    /\ UNCHANGED tychVars

\* proto.to_symbol()
CallToSymbol ==
    /\ fnCall # <<>> /\ fnCall.fn = "to_symbol" /\ fnResult = <<>>
    /\ fnResult' = <<ToSymbol(fnCall.arg)>>
    /\ UNCHANGED fnCall
    /\ UNCHANGED lexVars
    /\ UNCHANGED tychVars

FnNext ==
    \/ CallResolvePrimitive
    \/ CallToSymbol

FnSpec == FnInit /\ [][FnNext]_vars

\* what the fifteen names stand for
PrimitiveTable ==
    << <<<<"i", "n", "t", "8">>, "Int8">>,
       <<<<"i", "n", "t", "1", "6">>, "Int16">>,
       <<<<"i", "n", "t", "3", "2">>, "Int32">>,
       <<<<"i", "n", "t", "6", "4">>, "Int64">>,
       <<<<"u", "i", "n", "t", "8">>, "UInt8">>,
       <<<<"u", "i", "n", "t", "1", "6">>, "UInt16">>,
       <<<<"u", "i", "n", "t", "3", "2">>, "UInt32">>,
       <<<<"u", "i", "n", "t", "6", "4">>, "UInt64">>,
       <<<<"f", "l", "o", "a", "t">>, "Float">>,
       <<<<"d", "o", "u", "b", "l", "e">>, "Double">>,
       <<<<"b", "o", "o", "l">>, "Bool">>,
       <<<<"c", "h", "a", "r">>, "Char">>,
       <<<<"v", "o", "i", "d">>, "Void">>,
       <<<<"i", "n", "t">>, "Int32">>,
       <<<<"u", "i", "n", "t">>, "UInt32">> >>

Returned(fn) == fnCall # <<>> /\ fnCall.fn = fn /\ fnResult # <<>>

\* C24: resolve_primitive maps each of the fifteen lowercase names to its
\* primitive type, int to Int32 and uint to UInt32, and every other string, a
\* name in another letter case included, to Comp of that exact string.
C24_ResolvePrimitive ==
    Returned("resolve_primitive") =>
        LET rows == { k \in 1..Len(PrimitiveTable) : PrimitiveTable[k][1] = fnCall.arg }
        IN  IF rows # {}
            THEN \A k \in rows : fnResult[1] = Prim(PrimitiveTable[k][2])
            ELSE fnResult[1] = [t |-> "Comp", name |-> fnCall.arg]

\* Int32 is a composite of that name
C24_Witness ==
    /\ Returned("resolve_primitive")
    /\ fnCall.arg = <<"I", "n", "t", "3", "2">>
    /\ fnResult[1] = [t |-> "Comp", name |-> <<"I", "n", "t", "3", "2">>]

\* uint is UInt32
C24_WitnessAlias ==
    /\ Returned("resolve_primitive")
    /\ fnCall.arg = <<"u", "i", "n", "t">>
    /\ fnResult[1] = Prim("UInt32")

\* the parts of a string between its ~
RECURSIVE SplitTilde(_, _, _)
SplitTilde(str, i, part) ==
    IF i > Len(str) THEN <<part>>
    ELSE IF str[i] = "~" THEN <<part>> \o SplitTilde(str, i + 1, <<>>)
    ELSE SplitTilde(str, i + 1, Append(part, str[i]))

\* the lower case text of a type
RECURSIVE LowercaseType(_)
LowercaseType(ty) ==
    IF ty.t = "Comp" THEN <<"c", "o", "m", "p", "(", "\"">> \o ToAsciiLowercase(ty.name) \o <<"\"", ")">>
    ELSE IF ty.t = "Array"
    THEN <<"a", "r", "r", "a", "y", "(">> \o LowercaseType(ty.inner) \o <<",", " ">> \o UsizeDebug(ty.size)
         \o <<")">>
    ELSE PrimitiveTable[CHOOSE k \in 1..Len(PrimitiveTable) : PrimitiveTable[k][2] = ty.t][1]

\* C25: the name of the symbol to_symbol yields is the name of the prototype,
\* a ~, then <argument name>:<lower case type>~ for each argument in order,
\* then the lower case return type, void when the prototype has none; the
\* symbol is a function symbol with the arguments of the prototype and its
\* return type, Void when it has none.
C25_ToSymbol ==
    Returned("to_symbol") =>
        LET proto == fnCall.arg
            sym == fnResult[1]
            parts == SplitTilde(sym.name, 1, <<>>)
            ret_ty == IF proto.ret_ty = <<>> THEN Void ELSE proto.ret_ty[1]
        IN  /\ Len(parts) = Len(proto.args) + 2
            /\ parts[1] = proto.name
            /\ \A k \in 1..Len(proto.args) :
                  parts[k + 1] = proto.args[k][1] \o <<":">> \o LowercaseType(proto.args[k][2])
            /\ parts[Len(parts)] = LowercaseType(ret_ty)
            /\ sym.data = [d |-> "Fn", args |-> proto.args, ret_ty |-> ret_ty]

\* foo(bar: int32, baz: int32) without a return type is foo~bar:int32~baz:int32~void
C25_Witness ==
    /\ Returned("to_symbol")
    /\ fnCall.arg = [name |-> <<"f", "o", "o">>,
                     args |-> << <<<<"b", "a", "r">>, Int32>>, <<<<"b", "a", "z">>, Int32>> >>,
                     ret_ty |-> <<>>]
    /\ fnResult[1].name = <<"f", "o", "o", "~", "b", "a", "r", ":", "i", "n", "t", "3", "2", "~", "b", "a", "z", ":", "i", "n", "t", "3", "2", "~", "v", "o", "i", "d">>
    /\ fnResult[1].data.ret_ty = Void

====
